---- MODULE Spec2Model ----
(***************************************************************************)
(* A model of the nostr-data-pipeline ingestion and aggregation core:      *)
(*   - NostrPipeline (pipeline.py): inbound queue, batching loop, flush     *)
(*   - EventProcessor (event_processor.py): process_event                  *)
(*   - EventLoader / DatabaseManager: one session per batch, commit/rollback*)
(*   - RelayClient / RelayPool (relay_client.py): connect, backoff, stats  *)
(*   - MetricsAggregator (aggregator.py): the three passes in one session  *)
(* Time is counted in seconds by `now`.                                     *)
(***************************************************************************)
EXTENDS Integers, Sequences, FiniteSets, TLC

\* ------------------------------------------------------------------------
\* Bounds of the model (the configuration defaults, scaled down)
\* ------------------------------------------------------------------------
BufferSize == 2
BatchSize == 3
Interval == 2
MaxClock == 4
MaxDeliveries == 3
MaxBatchLen == 4

\* ------------------------------------------------------------------------
\* Wire events.  The id is a content hash, so an event's fields are a
\* function of its id.  Id 0 stands for an event that carries no "id" key.
\* ------------------------------------------------------------------------
NoId == 0
KindMissing == -1
KIND_METADATA == 0
KIND_TEXT_NOTE == 1
KIND_ZAP == 9735

Relays == {"r1", "r2"}

\* The events the relays deliver in this model:
\*   1  profile update of author A whose body is a JSON object
\*   2  an event without a "kind" key
\*   3  a note without an author key (violates NOT NULL on nostr_events.pubkey)
\*   0  a note of author B that carries no id
\* (4 is a note of author B, read by the aggregator.)
DeliverIds == {0, 1, 2, 3}

\* The events whose kind-specific payload is at stake:
\*   8   payment receipt of author D, invoice "lnbc20u1p"  (2000 msats)
\*   9   payment receipt of author D, invoice "lnbc0u1p"   (0 msats)
\*   10  payment receipt of author D without an invoice tag
\*   11  profile update of author A whose body is JSON but no object ("[]")
\*   12  profile update of author A whose body is not JSON
PayloadIds == {8, 9, 10, 11, 12}

\* The notes the aggregator reads in this model, besides the above:
\*   4, 5  notes of author B tagged "nostr"
\*   6     a note of author C tagged "nostr" and "Nostr"
\*   7     a note of author C, tagged "nostr", created a week (less 1 s) before time 0
\*   13    a note of author C tagged "nostr" three times and "btc" once
NoteIds == {4, 5, 6, 7, 13}

ContentWindow == 604800
TrendingWindow == 86400

Event(id, pubkey, kind, content, t_tags, created_at) ==
    [id |-> id, pubkey |-> pubkey, kind |-> kind, content |-> content,
     t_tags |-> t_tags, created_at |-> created_at]

EventOf(id) ==
    CASE id = 1 -> Event(1, "A", KIND_METADATA, "object", <<>>, 0)
      [] id = 2 -> Event(2, "A", KindMissing, "text", <<>>, 0)
      [] id = 3 -> Event(3, "none", KIND_TEXT_NOTE, "text", <<>>, 0)
      [] id = 4 -> Event(4, "B", KIND_TEXT_NOTE, "text", <<"nostr">>, 0)
      [] id = 5 -> Event(5, "B", KIND_TEXT_NOTE, "text", <<"nostr">>, 0)
      [] id = 6 -> Event(6, "C", KIND_TEXT_NOTE, "text", <<"nostr", "Nostr">>, 0)
      [] id = 7 -> Event(7, "C", KIND_TEXT_NOTE, "text", <<"nostr">>, 1 - ContentWindow)
      [] id \in {8, 9, 10} -> Event(id, "D", KIND_ZAP, "text", <<>>, 0)
      [] id = 11 -> Event(11, "A", KIND_METADATA, "nonobject", <<>>, 0)
      [] id = 12 -> Event(12, "A", KIND_METADATA, "text", <<>>, 0)
      [] id = 13 -> Event(13, "C", KIND_TEXT_NOTE, "text",
                          <<"nostr", "nostr", "nostr", "btc">>, 0)
      [] OTHER -> Event(id, "B", KIND_TEXT_NOTE, "text", <<>>, 0)

\* The value of the event's "bolt11" tag, as a sequence of characters; the
\* empty sequence stands for an event without the tag.
Bolt11Of(id) ==
    CASE id = 8 -> <<"l", "n", "b", "c", "2", "0", "u", "1", "p">>
      [] id = 9 -> <<"l", "n", "b", "c", "0", "u", "1", "p">>
      [] OTHER -> <<>>

\* ------------------------------------------------------------------------
\* EventProcessor
\* ------------------------------------------------------------------------
None == [ok |-> FALSE]

\* The amount _parse_bolt11_amount returns as None
AmountUnknown == -1

DigitVal(c) ==
    CASE c = "0" -> 0 [] c = "1" -> 1 [] c = "2" -> 2 [] c = "3" -> 3
      [] c = "4" -> 4 [] c = "5" -> 5 [] c = "6" -> 6 [] c = "7" -> 7
      [] c = "8" -> 8 [] c = "9" -> 9 [] OTHER -> -1

\* float(q) succeeds on a non-empty string of digits and raises ValueError
\* on the other strings of this model's alphabet.
IsNumber(q) == q # <<>> /\ \A i \in 1..Len(q) : DigitVal(q[i]) >= 0

RECURSIVE NumberOf(_)
NumberOf(q) ==
    IF q = <<>> THEN 0 ELSE 10 * NumberOf(SubSeq(q, 1, Len(q) - 1)) + DigitVal(q[Len(q)])

\* str.split("1")[0]: the part before the first "1"
RECURSIVE BeforeFirstOne(_)
BeforeFirstOne(q) ==
    IF q = <<>> \/ Head(q) = "1" THEN <<>> ELSE <<Head(q)>> \o BeforeFirstOne(Tail(q))

\* _parse_bolt11_amount: None without the tag, without the prefix "lnbc",
\* without text before the first "1", or when float() raises; else
\* int(amount * multiplier) in msats.
ParseBolt11Amount(bolt11) ==
    IF bolt11 = <<>> THEN AmountUnknown
    ELSE IF Len(bolt11) < 4 \/ SubSeq(bolt11, 1, 4) # <<"l", "n", "b", "c">> THEN AmountUnknown
    ELSE LET amount_str == BeforeFirstOne(SubSeq(bolt11, 5, Len(bolt11))) IN
         IF amount_str = <<>> THEN AmountUnknown
         ELSE LET multiplier_char == amount_str[Len(amount_str)]
                  digits == SubSeq(amount_str, 1, Len(amount_str) - 1)
              IN  IF multiplier_char \in {"m", "u", "n", "p"}
                  THEN IF ~IsNumber(digits) THEN AmountUnknown
                       ELSE CASE multiplier_char = "m" -> NumberOf(digits) * 100000
                              [] multiplier_char = "u" -> NumberOf(digits) * 100
                              [] multiplier_char = "n" -> NumberOf(digits) \div 10
                              [] OTHER -> NumberOf(digits) \div 10000
                  ELSE IF ~IsNumber(amount_str) THEN AmountUnknown
                       ELSE NumberOf(amount_str) * 100000 * 1000000

\* _process_zap: the amount of the invoice, and amount_sats which is 0 for
\* an amount that is None or 0.
ProcessZap(e) ==
    LET amount_msats == ParseBolt11Amount(Bolt11Of(e.id)) IN
    [amount_msats |-> amount_msats,
     amount_sats |-> IF amount_msats # AmountUnknown /\ amount_msats # 0
                     THEN amount_msats \div 1000 ELSE 0]

NoZap == [amount_msats |-> AmountUnknown, amount_sats |-> 0]

\* _process_metadata: json.loads of the body; a JSONDecodeError yields None,
\* a JSON value that is no object raises AttributeError on content.get.
ProcessMetadata(e) ==
    CASE e.content = "object" -> "dict"
      [] e.content = "nonobject" -> "raise"
      [] OTHER -> "none"

\* process_event: the envelope plus the kind's payload; any exception is
\* caught and yields None.  event["kind"] raises KeyError without the key.
ProcessEvent(e, relay_url, t) ==
    IF e.kind = KindMissing THEN None
    ELSE LET md == IF e.kind = KIND_METADATA THEN ProcessMetadata(e) ELSE "absent" IN
         IF md = "raise" THEN None
         ELSE [ok |-> TRUE, id |-> e.id, pubkey |-> e.pubkey, kind |-> e.kind,
               relay_url |-> relay_url, received_at |-> t, metadata |-> md,
               has_zap_data |-> e.kind = KIND_ZAP,
               zap_data |-> IF e.kind = KIND_ZAP THEN ProcessZap(e) ELSE NoZap]

\* ------------------------------------------------------------------------
\* Storage: models.py and the SQLAlchemy session of DatabaseManager
\* ------------------------------------------------------------------------
\* Keys of profile_data built in _process_batch: "pubkey" plus the keys of
\* the dict _process_metadata returns.
ProfileDataKeys ==
    {"pubkey", "name", "display_name", "about", "picture", "nip05", "lud06",
     "lud16", "banner", "website", "raw_metadata"}

\* Attributes of the mapped class UserProfile.
UserProfileAttrs ==
    {"pubkey", "name", "display_name", "about", "picture", "nip05", "lud06",
     "lud16", "banner", "website", "profile_metadata", "first_seen",
     "last_updated", "event_count"}

\* The declarative constructor raises TypeError for a keyword that is no
\* attribute of the class.
ConstructorAccepts(keys, attrs) == keys \subseteq attrs

\* nostr_events.pubkey is NOT NULL
RowValid(row) == row.pubkey # "none"

EmptySession ==
    [events |-> {}, handed |-> <<>>, profAdds |-> <<>>, profUpd |-> {}, zaps |-> {}]

\* save_event: session.merge of a NostrEvent built from the record (all
\* columns, processed = False).  An exception is caught and False returned.
SaveEvent(sess, p, entry, saveFault) ==
    [sess EXCEPT
        !.handed = Append(@, entry),
        !.events = IF p.id \in saveFault THEN @
                   ELSE @ \cup {[id |-> p.id, pubkey |-> p.pubkey, kind |-> p.kind,
                                 relay_url |-> p.relay_url,
                                 received_at |-> p.received_at,
                                 processed |-> FALSE]}]

\* save_user_profile: query the committed row (autoflush is off), update it
\* in place or construct and add a new one; an exception is caught.
SaveUserProfile(sess, p, profiles) ==
    IF p.pubkey \in DOMAIN profiles
    THEN [sess EXCEPT !.profUpd = @ \cup {p.pubkey}]
    ELSE IF ConstructorAccepts(ProfileDataKeys, UserProfileAttrs)
         THEN [sess EXCEPT !.profAdds = Append(@, p.pubkey)]
         ELSE sess

\* save_zap: session.merge of a Zap built from zap_data.
SaveZap(sess, p) ==
    [sess EXCEPT !.zaps = @ \cup {[id |-> p.id,
                                    amount_msats |-> p.zap_data.amount_msats,
                                    amount_sats |-> p.zap_data.amount_sats,
                                    relay_url |-> p.relay_url,
                                    received_at |-> p.received_at]}]

\* Python truth value of an amount: None and 0 are false.
Truthy(amount) == amount # AmountUnknown /\ amount # 0

\* The deduplication loop of _process_batch: the first entry of every id,
\* in batch order; entries without an id are skipped.
RECURSIVE DedupFrom(_, _, _)
DedupFrom(b, i, seen) ==
    IF i > Len(b) THEN <<>>
    ELSE IF b[i].id # NoId /\ b[i].id \notin seen
         THEN <<b[i]>> \o DedupFrom(b, i + 1, seen \cup {b[i].id})
         ELSE DedupFrom(b, i + 1, seen)

\* Mutant of Dedup: the last entry of every id survives instead of the first.
RECURSIVE DedupLastFrom(_, _)
DedupLastFrom(b, i) ==
    IF i > Len(b) THEN <<>>
    ELSE IF b[i].id # NoId /\ ~\E j \in (i + 1)..Len(b) : b[j].id = b[i].id
         THEN <<b[i]>> \o DedupLastFrom(b, i + 1)
         ELSE DedupLastFrom(b, i + 1)

DedupKeepLast(b) == DedupLastFrom(b, 1)

Dedup(b) == DedupFrom(b, 1, {})

\* The body of the per-entry try block of _process_batch.
HandleEntry(sess, entry, saveFault, t, profiles) ==
    LET p == ProcessEvent(EventOf(entry.id), entry.relay, t) IN
    IF ~p.ok THEN sess
    ELSE LET s1 == SaveEvent(sess, p, entry, saveFault) IN
         IF p.kind = KIND_METADATA /\ p.metadata = "dict"
         THEN SaveUserProfile(s1, p, profiles)
         ELSE IF p.kind = KIND_ZAP /\ p.has_zap_data /\ Truthy(p.zap_data.amount_msats)
         THEN SaveZap(s1, p)
         ELSE s1

\* Mutant of SessionFrom: a failed process_event ends the loop over the batch.
RECURSIVE SessionFromAbort(_, _, _, _, _, _)
SessionFromAbort(unique, i, sess, saveFault, t, profiles) ==
    IF i > Len(unique) THEN sess
    ELSE IF ~ProcessEvent(EventOf(unique[i].id), unique[i].relay, t).ok THEN sess
    ELSE SessionFromAbort(unique, i + 1,
                          HandleEntry(sess, unique[i], saveFault, t, profiles),
                          saveFault, t, profiles)

\* The for loop over unique_batch inside the session block.
RECURSIVE SessionFrom(_, _, _, _, _, _)
SessionFrom(unique, i, sess, saveFault, t, profiles) ==
    IF i > Len(unique) THEN sess
    ELSE SessionFrom(unique, i + 1,
                     HandleEntry(sess, unique[i], saveFault, t, profiles),
                     saveFault, t, profiles)

SessionOf(unique, saveFault, t, profiles) ==
    SessionFrom(unique, 1, EmptySession, saveFault, t, profiles)

\* get_session: commit on leaving the block; a failed flush of any pending
\* row, or a storage fault, rolls the whole session back and re-raises.
CommitFails(sess, commitFault, profiles) ==
    \/ commitFault
    \/ \E r \in sess.events : ~RowValid(r)
    \/ \E i \in 1..Len(sess.profAdds) :
          \/ sess.profAdds[i] \in DOMAIN profiles
          \/ sess.profAdds[i] = "none"
          \/ \E j \in 1..Len(sess.profAdds) : j # i /\ sess.profAdds[j] = sess.profAdds[i]

MergedEvents(tbl, rows) ==
    LET ids == {r.id : r \in rows} IN
    [id \in DOMAIN tbl \cup ids |->
        IF id \in ids THEN CHOOSE r \in rows : r.id = id ELSE tbl[id]]

MergedZaps(tbl, rows) ==
    LET ids == {r.id : r \in rows} IN
    [id \in DOMAIN tbl \cup ids |->
        IF id \in ids THEN CHOOSE r \in rows : r.id = id ELSE tbl[id]]

MergedProfiles(tbl, sess, t) ==
    LET adds == {sess.profAdds[i] : i \in 1..Len(sess.profAdds)} IN
    [k \in DOMAIN tbl \cup adds |->
        IF k \in adds THEN [first_seen |-> t, last_updated |-> t]
        ELSE IF k \in sess.profUpd THEN [tbl[k] EXCEPT !.last_updated = t]
        ELSE tbl[k]]

\* ------------------------------------------------------------------------
\* State
\* ------------------------------------------------------------------------
VARIABLES
    now,              \* wall clock, seconds
    running,          \* NostrPipeline.running
    event_buffer,     \* NostrPipeline.event_buffer (asyncio.Queue)
    batch,            \* _event_processor_loop: batch
    last_batch_time,  \* _event_processor_loop: last_batch_time
    loop_pc,          \* where the _event_processor_loop task is
    nostr_events,     \* table nostr_events, committed rows by id
    user_profiles,    \* table user_profiles, committed rows by pubkey
    zaps,             \* table zaps, committed rows by id
    flush,            \* the last call of _process_batch (history)
    enqueued,         \* ids of the events put on event_buffer (history)
    delivered,        \* number of callbacks made (history, bounded)
    stats             \* NostrPipeline.stats: events_received, events_saved

ingestVars == <<now, running, event_buffer, batch, last_batch_time, loop_pc,
                nostr_events, user_profiles, zaps, flush, enqueued, delivered,
                   stats>>

VARIABLES
    pool_pc,          \* where the caller of the RelayPool is
    clients,          \* RelayPool.clients: the urls that have a RelayClient
    client,           \* the fields of each url's RelayClient
    conn_result,      \* connect_all: the result gathered for each connect()
    task_pc,          \* where each run_with_reconnect task is
    fails,            \* failed connects in a row made by the task (history)
    lost,             \* the task has had a stream and lost it (history)
    slept             \* the delay of the task's current or last sleep (history)

VARIABLES
    tasks,            \* RelayPool._tasks: the urls whose task is in the list
    cancelling,       \* tasks whose cancellation is requested, not yet delivered
    cancelled_at,     \* where each task was when disconnect_all cancelled it (history)
    frames,           \* number of frames each listen() has handled (history, bounded)
    last_frame,       \* the last frame each client handled (history)
    closes,           \* number of websocket.close() calls (history)
    disconnects       \* number of disconnect_all() calls (history, bounded)

schedVars == <<tasks, cancelling, cancelled_at, frames, last_frame, closes, disconnects>>

VARIABLES
    transports        \* per url, the transports websockets.connect has opened for
                      \* its client: how many are open, and whether the one
                      \* self.websocket refers to is open

taskVars == <<schedVars, transports>>

VARIABLES
    fanouts,          \* number of fan-out calls made (history, bounded)
    fanout            \* the last subscribe_all / unsubscribe_all / publish_to_all (history)

VARIABLES
    replay,             \* run_with_reconnect: the rest of list(self.subscriptions.items())
    req_sent,           \* ids whose REQ was handed to the client's current transport (history)
    stored_at_connect,  \* ids stored when the task's last connect() succeeded (history)
    removed,            \* ids unsubscribe() removed and no caller subscribed since (history)
    removed_at_connect, \* `removed` when the task's last connect() succeeded (history)
    resent              \* ids the replay of a reconnect sent although they were removed
                        \* before that reconnect and not subscribed since (history)

subVars == <<replay, req_sent, stored_at_connect, removed, removed_at_connect, resent>>

fanVars == <<fanouts, fanout, subVars>>

poolVars == <<pool_pc, clients, client, conn_result, task_pc, fails, lost, slept,
              taskVars, fanVars>>

VARIABLES
    content_metrics,  \* table content_metrics, committed rows by event_id
    trending_topics,  \* table trending_topics, committed rows
    network_stats,    \* table network_stats, committed rows
    agg_runs,         \* number of aggregation runs made (history, bounded)
    agg_ok,           \* number of aggregation runs that committed (history)
    agg_last          \* the last call of run_aggregation (history)

aggVars == <<content_metrics, trending_topics, network_stats, agg_runs, agg_ok, agg_last>>

VARIABLES
    agg_pc,           \* where the _metrics_aggregator_loop task is
    flush_open,       \* sessions of _process_batch that are open (not yet committed or rolled back)
    agg_open,         \* sessions of run_aggregation that are open
    executing,        \* the task that holds the event loop's thread, "none" when all are suspended
    tx_flushes,       \* number of flushes begun (history, bounded)
    blocked           \* per relay, the entry whose event_buffer.put() waits for room

txVars == <<agg_pc, flush_open, agg_open, executing, tx_flushes, blocked>>

VARIABLES
    in_bolt11,          \* the invoice handed to _parse_bolt11_amount
    out_amount_msats,   \* what _parse_bolt11_amount returned
    in_tags,            \* the tags handed to _extract_reply_to
    out_reply_to,       \* what _extract_reply_to returned
    in_counts,          \* the engagement arguments of calculate_virality_score
    in_age_hours,       \* its age_hours argument
    out_virality_score  \* what calculate_virality_score returned

fnVars == <<in_bolt11, out_amount_msats, in_tags, out_reply_to, in_counts, in_age_hours,
            out_virality_score>>

vars == <<ingestVars, poolVars, aggVars, txVars, fnVars>>

NoFlush == [outcome |-> "none", batch |-> <<>>, unique |-> <<>>, handed |-> <<>>,
            saveFault |-> {}, commitFault |-> FALSE, at |-> 0]

EmptyTable == [k \in {} |-> 0]

InitIngest ==
    /\ now = 0
    /\ running = FALSE
    /\ event_buffer = <<>>
    /\ batch = <<>>
    /\ last_batch_time = 0
    /\ loop_pc = "idle"
    /\ nostr_events = EmptyTable
    /\ user_profiles = EmptyTable
    /\ zaps = EmptyTable
    /\ flush = NoFlush
    /\ enqueued = {}
    /\ delivered = 0
    /\ stats = [events_received |-> 0, events_saved |-> 0]

\* ------------------------------------------------------------------------
\* NostrPipeline
\* ------------------------------------------------------------------------
\* start(): running = True and the background tasks are created.
Start ==
    /\ loop_pc = "idle"
    /\ ~running
    /\ running' = TRUE
    /\ loop_pc' = "wait"
    /\ last_batch_time' = now
    /\ agg_pc' = "sleep"
    /\ UNCHANGED <<now, event_buffer, batch, nostr_events, user_profiles, zaps,
                   flush, enqueued, delivered, stats>>
    /\ UNCHANGED <<flush_open, agg_open, executing, tx_flushes, blocked>>
    /\ UNCHANGED <<poolVars, aggVars, fnVars>>

\* _on_event_received: await event_buffer.put((event, relay_url)) with room
\* in the queue.  A relay's listen() awaits the callback, so a relay whose
\* put waits delivers nothing more.  `max` bounds the deliveries of a run.
OnEventReceivedUpTo(id, relay, max) ==
    /\ running
    /\ delivered < max
    /\ blocked[relay] = <<>>
    /\ Len(event_buffer) < BufferSize
    /\ event_buffer' = Append(event_buffer, [id |-> id, relay |-> relay])
    /\ enqueued' = enqueued \cup {id}
    /\ delivered' = delivered + 1
    /\ stats' = [stats EXCEPT !.events_received = @ + 1]
    /\ UNCHANGED <<now, running, batch, last_batch_time, loop_pc, nostr_events,
                   user_profiles, zaps, flush>>
    /\ UNCHANGED <<poolVars, aggVars, txVars, fnVars>>

OnEventReceived(id, relay) == OnEventReceivedUpTo(id, relay, MaxDeliveries)

MaxBacklogDeliveries == 4

\* Mutant of FullQueuePut: the entry is dropped when the queue is full.
FullQueueDrops(entry) == <<>>

\* asyncio.Queue.put on a full queue: the producer is suspended with its
\* entry until there is room.
FullQueuePut(entry) == <<entry>>

\* _on_event_received: the queue is full and the put waits.
PutBlocks(id, relay) ==
    /\ running
    /\ delivered < MaxBacklogDeliveries
    /\ blocked[relay] = <<>>
    /\ Len(event_buffer) >= BufferSize
    /\ blocked' = [blocked EXCEPT ![relay] = FullQueuePut([id |-> id, relay |-> relay])]
    /\ delivered' = delivered + 1
    /\ stats' = [stats EXCEPT !.events_received = @ + 1]
    /\ UNCHANGED <<now, running, event_buffer, batch, last_batch_time, loop_pc,
                   nostr_events, user_profiles, zaps, flush, enqueued>>
    /\ UNCHANGED <<agg_pc, flush_open, agg_open, executing, tx_flushes>>
    /\ UNCHANGED <<poolVars, aggVars, fnVars>>

\* A put that waited finds room in the queue and returns.
PutResumes(relay) ==
    /\ blocked[relay] # <<>>
    /\ Len(event_buffer) < BufferSize
    /\ event_buffer' = Append(event_buffer, Head(blocked[relay]))
    /\ enqueued' = enqueued \cup {Head(blocked[relay]).id}
    /\ blocked' = [blocked EXCEPT ![relay] = <<>>]
    /\ UNCHANGED <<now, running, batch, last_batch_time, loop_pc, nostr_events,
                   user_profiles, zaps, flush, delivered, stats>>
    /\ UNCHANGED <<agg_pc, flush_open, agg_open, executing, tx_flushes>>
    /\ UNCHANGED <<poolVars, aggVars, fnVars>>

\* The storage faults one flush may meet at save time: none, or the lookup
\* of session.merge failing for one of the batch's ids.
SaveFaults(b) == {{}} \cup {{b[i].id} : i \in {j \in 1..Len(b) : b[j].id # NoId}}

\* The number of times the for loop of _process_batch reaches
\* stats["events_saved"] += 1: once for every entry that save_event was
\* called for, whatever save_event returned.
SavedCount(sess, saveFault) == Len(sess.handed)

\* _process_batch(b) at time t; raises iff the commit fails.  The counters
\* are incremented inside the session block, before the commit.
ProcessBatch(b, t, saveFault, commitFault) ==
    LET unique == Dedup(b)
        sess == SessionOf(unique, saveFault, t, user_profiles)
        raises == CommitFails(sess, commitFault, user_profiles)
    IN  /\ stats' = [stats EXCEPT !.events_saved = @ + SavedCount(sess, saveFault)]
        /\ flush' = [outcome |-> IF raises THEN "raised" ELSE "committed",
                     batch |-> b, unique |-> unique, handed |-> sess.handed,
                     saveFault |-> saveFault, commitFault |-> commitFault, at |-> t]
        /\ IF raises
           THEN UNCHANGED <<nostr_events, user_profiles, zaps>>
           ELSE /\ nostr_events' = MergedEvents(nostr_events, sess.events)
                /\ user_profiles' = MergedProfiles(user_profiles, sess, t)
                /\ zaps' = MergedZaps(zaps, sess.zaps)

\* Mutant of ShouldProcess: only the size of the batch triggers a flush.
ShouldProcessBySize(b, t, last) == Len(b) >= BatchSize

\* should_process, with `last` the value of last_batch_time
ShouldProcess(b, t, last) ==
    \/ Len(b) >= BatchSize
    \/ (b # <<>> /\ t - last >= Interval)

\* Mutant of LoopIteration: a flush that raised empties the batch too.
LoopIterationDropsFailed(b, t) ==
    LET should_process == ShouldProcess(b, t, last_batch_time)
    IN  IF should_process
        THEN \E saveFault \in SaveFaults(b), commitFault \in BOOLEAN :
                /\ ProcessBatch(b, t, saveFault, commitFault)
                /\ batch' = <<>>
                /\ last_batch_time' = t
                /\ loop_pc' = IF flush'.outcome = "committed" THEN "wait" ELSE "sleep_err"
        ELSE /\ batch' = b
             /\ loop_pc' = "wait"
             /\ UNCHANGED <<last_batch_time, nostr_events, user_profiles, zaps, flush,
                            stats>>

\* The rest of one iteration of the while loop, after the queue poll.
LoopIteration(b, t) ==
    LET should_process == ShouldProcess(b, t, last_batch_time)
    IN  IF should_process
        THEN \E saveFault \in SaveFaults(b), commitFault \in BOOLEAN :
                /\ ProcessBatch(b, t, saveFault, commitFault)
                /\ IF flush'.outcome = "committed"
                   THEN /\ batch' = <<>>
                        /\ last_batch_time' = t
                        /\ loop_pc' = "wait"
                   ELSE /\ batch' = b
                        /\ last_batch_time' = last_batch_time
                        /\ loop_pc' = "sleep_err"
        ELSE /\ batch' = b
             /\ loop_pc' = "wait"
             /\ UNCHANGED <<last_batch_time, nostr_events, user_profiles, zaps, flush,
                            stats>>

\* wait_for(event_buffer.get(), 1.0) returns an entry within the second.
LoopGet ==
    /\ loop_pc = "wait"
    /\ event_buffer # <<>>
    /\ Len(batch) < MaxBatchLen
    /\ \E dt \in {0, 1} :
          /\ now + dt <= MaxClock
          /\ now' = now + dt
          /\ event_buffer' = Tail(event_buffer)
          /\ LoopIteration(Append(batch, Head(event_buffer)), now + dt)
    /\ UNCHANGED <<running, enqueued, delivered>>
    /\ UNCHANGED <<poolVars, aggVars, txVars, fnVars>>

\* wait_for(...) times out after one second on an empty queue.
LoopTimeout ==
    /\ loop_pc = "wait"
    /\ event_buffer = <<>>
    /\ now < MaxClock
    /\ now' = now + 1
    /\ LoopIteration(batch, now + 1)
    /\ UNCHANGED <<running, event_buffer, enqueued, delivered>>
    /\ UNCHANGED <<poolVars, aggVars, txVars, fnVars>>

\* except Exception: ... await asyncio.sleep(1)
LoopErrorSleep ==
    /\ loop_pc = "sleep_err"
    /\ now < MaxClock
    /\ now' = now + 1
    /\ loop_pc' = "wait"
    /\ UNCHANGED <<running, event_buffer, batch, last_batch_time, nostr_events,
                   user_profiles, zaps, flush, enqueued, delivered,
                   stats>>
    /\ UNCHANGED <<poolVars, aggVars, txVars, fnVars>>

\* stop() runs when every other task is suspended: running = False, every
\* background task is cancelled at the await it is suspended in; the loop's local batch goes with the task, and so do
\* the puts that wait in the callbacks of the relays' tasks, which
\* disconnect_all cancels.
Stop ==
    /\ running
    /\ executing = "none"
    /\ loop_pc \in {"wait", "sleep_err", "in_flush"}
    /\ running' = FALSE
    /\ loop_pc' = "exited"
    /\ agg_pc' = "exited"
    /\ blocked' = [r \in Relays |-> <<>>]
    /\ UNCHANGED <<now, event_buffer, batch, last_batch_time, nostr_events,
                   user_profiles, zaps, flush, enqueued, delivered,
                   stats>>
    /\ UNCHANGED <<flush_open, agg_open, executing, tx_flushes>>
    /\ UNCHANGED <<poolVars, aggVars, fnVars>>


\* ------------------------------------------------------------------------
\* RelayClient and RelayPool
\* ------------------------------------------------------------------------
MaxErrors == 8
MaxFrames == 2
MaxFanouts == 3
MaxDisconnects == 2

Peers == Relays

FloorDelay == 1
MaxReconnectDelay == 60

Min(a, b) == IF a <= b THEN a ELSE b

\* The subscription ids of a caller
SubIds == {"main", "aux"}

\* self.subscriptions is a dict: the ids in insertion order
Has(subs, sub_id) == \E i \in 1..Len(subs) : subs[i] = sub_id

\* self.subscriptions[subscription_id] = filters
Store(subs, sub_id) == IF Has(subs, sub_id) THEN subs ELSE Append(subs, sub_id)

\* del self.subscriptions[subscription_id]
Remove(subs, sub_id) == SelectSeq(subs, LAMBDA x : x # sub_id)

NoTransport == [open |-> 0, current |-> FALSE]

\* Mutant of Opened: the transport self.websocket referred to is closed
\* before the new one replaces it.
OpenedAfterClose(t) == [open |-> (IF t.current THEN t.open - 1 ELSE t.open) + 1,
                        current |-> TRUE]

\* self.websocket = await websockets.connect(...): a new transport is open
\* and self.websocket refers to it; the one it referred to is not closed.
Opened(t) == [open |-> t.open + 1, current |-> TRUE]

\* The transport self.websocket refers to is closed, by the relay or by
\* websocket.close(); closing a closed transport changes nothing.
Closed(t) == IF t.current THEN [open |-> t.open - 1, current |-> FALSE] ELSE t

NewClient ==
    [is_connected |-> FALSE, websocket |-> FALSE, reconnect_delay |-> FloorDelay,
     error_count |-> 0, subscriptions |-> <<>>]

\* Mutant of Connect: a failed connect is not counted.
ConnectUncounted(c, ok) ==
    IF ok
    THEN [c EXCEPT !.is_connected = TRUE, !.websocket = TRUE,
                   !.reconnect_delay = FloorDelay]
    ELSE [c EXCEPT !.is_connected = FALSE]

\* Mutant of Connect: a successful connect leaves the delay as it was.
ConnectKeepsDelay(c, ok) ==
    IF ok
    THEN [c EXCEPT !.is_connected = TRUE, !.websocket = TRUE]
    ELSE [c EXCEPT !.is_connected = FALSE, !.error_count = @ + 1]

\* connect(): `ok` is whether websockets.connect returned or raised.
Connect(c, ok) ==
    IF ok
    THEN [c EXCEPT !.is_connected = TRUE, !.websocket = TRUE,
                   !.reconnect_delay = FloorDelay]
    ELSE [c EXCEPT !.is_connected = FALSE, !.error_count = @ + 1]

\* Mutant of NextDelay: the ceiling is not applied.
NextDelayUncapped(d) == d * 2

\* run_with_reconnect: reconnect_delay = min(reconnect_delay * 2, max_reconnect_delay)
NextDelay(d) == Min(d * 2, MaxReconnectDelay)

\* Mutant of ExceptionCatches: the handler catches the cancellation too.
CatchesEverything(exc) == TRUE

\* `except Exception`: asyncio.CancelledError derives from BaseException and
\* passes through the handler.
ExceptionCatches(exc) == exc # "CancelledError"

\* The frames a relay sends in this model:
\*   event_ok             EVENT frame, the callback returns
\*   event_raise          EVENT frame, the callback raises
\*   event_raise_nondict  EVENT frame whose event is no JSON object, the
\*                        callback raises (the handler's event.get raises too)
\*   invalid_json         a frame that is not JSON
\*   eose                 EOSE frame
FrameKinds == {"event_ok", "event_raise", "event_raise_nondict", "invalid_json", "eose"}

EventFrames == {"event_ok", "event_raise", "event_raise_nondict"}

\* _call_event_callback: an exception of the callback is logged with
\* event.get("id"); nothing escapes unless that call raises itself.
CallbackEscapes(frame) == frame = "event_raise_nondict"

\* Frames that are no protocol array of a known shape:
\*   invalid_json   not JSON
\*   json_object    a JSON object, {}
\*   json_number    a JSON number
\*   json_string    a JSON string that is not empty
\*   empty_array    []
\*   short_event    ["EVENT"], the subscription id and the event are missing
\*   unknown_type   an array whose first element is no message type
MalformedFrames == {"invalid_json", "json_object", "json_number", "json_string",
                    "empty_array", "short_event", "unknown_type"}

\* What the try block of _handle_message raises before any branch has acted:
\* json.loads raises JSONDecodeError; data[0] raises KeyError on an object,
\* TypeError on a number, IndexError on an empty array, and is the first
\* character of a string; data[1] raises IndexError on ["EVENT"]; a first
\* element that equals no message type selects no branch.
DecodeRaises(frame) ==
    CASE frame = "invalid_json" -> "JSONDecodeError"
      [] frame = "json_object" -> "KeyError"
      [] frame = "json_number" -> "TypeError"
      [] frame \in {"empty_array", "short_event"} -> "IndexError"
      [] OTHER -> "none"

\* Whether _handle_message reaches the call of the registered callback: in
\* the EVENT branch, after data[1] and data[2] were read.
InvokesCallback(frame) == frame \in EventFrames /\ DecodeRaises(frame) = "none"

\* Mutant of HandleMessageClient: no frame is counted as an error.
HandleMessageCountsNothing(c, frame) == c

\* The client after _handle_message(frame): error_count is incremented in
\* the two except clauses of _handle_message.
HandleMessageClient(c, frame) ==
    IF DecodeRaises(frame) # "none" \/ (InvokesCallback(frame) /\ CallbackEscapes(frame))
    THEN [c EXCEPT !.error_count = @ + 1]
    ELSE c

\* Mutant of HandleMessageEscapes: an exception of the callback leaves
\* _handle_message.
HandleMessageLeaks(frame) == frame \in {"event_raise", "event_raise_nondict"}

\* Whether an exception leaves _handle_message: its last clause catches
\* every Exception.
HandleMessageEscapes(frame) == FALSE

RECURSIVE SumErrors(_)
SumErrors(S) ==
    IF S = {} THEN 0
    ELSE LET p == CHOOSE q \in S : TRUE IN client[p].error_count + SumErrors(S \ {p})

\* get_stats()
GetStats ==
    [total_relays |-> Cardinality(clients),
     connected_relays |-> Cardinality({p \in clients : client[p].is_connected}),
     total_errors |-> SumErrors(clients),
     relays |-> [p \in clients |->
                    [connected |-> client[p].is_connected,
                     errors |-> client[p].error_count]]]

NoFanout == [op |-> "none", sub_id |-> "none", targets |-> {}, attempted |-> {}, done |-> {},
             sendOk |-> {}, results |-> [p \in {} |-> FALSE], raised |-> FALSE]

InitPool ==
    /\ pool_pc = "init"
    /\ clients = {}
    /\ client = [p \in Peers |-> NewClient]
    /\ conn_result = [p \in Peers |-> "none"]
    /\ task_pc = [p \in Peers |-> "none"]
    /\ fails = [p \in Peers |-> 0]
    /\ lost = [p \in Peers |-> FALSE]
    /\ slept = [p \in Peers |-> 0]
    /\ tasks = {}
    /\ cancelling = {}
    /\ cancelled_at = [p \in Peers |-> "none"]
    /\ frames = [p \in Peers |-> 0]
    /\ last_frame = [p \in Peers |-> "none"]
    /\ closes = 0
    /\ disconnects = 0
    /\ fanouts = 0
    /\ fanout = NoFanout
    /\ replay = [p \in Peers |-> <<>>]
    /\ req_sent = [p \in Peers |-> {}]
    /\ stored_at_connect = [p \in Peers |-> {}]
    /\ removed = [p \in Peers |-> {}]
    /\ removed_at_connect = [p \in Peers |-> {}]
    /\ resent = [p \in Peers |-> {}]
    /\ transports = [p \in Peers |-> NoTransport]

\* connect_all(), up to the await of gather: one RelayClient per url, one
\* connect() coroutine per client.
ConnectAllBegin ==
    /\ pool_pc = "init"
    /\ pool_pc' = "connecting"
    /\ clients' = Peers
    /\ client' = [p \in Peers |-> NewClient]
    /\ conn_result' = [p \in Peers |-> "pending"]
    /\ UNCHANGED <<task_pc, fails, lost, slept>>
    /\ UNCHANGED <<taskVars, fanVars>>
    /\ UNCHANGED <<ingestVars, aggVars, txVars, fnVars>>

\* One of the gathered connect() calls settles.
ConnectAllSettle(p, ok) ==
    /\ pool_pc = "connecting"
    /\ conn_result[p] = "pending"
    /\ client' = [client EXCEPT ![p] = Connect(@, ok)]
    /\ conn_result' = [conn_result EXCEPT ![p] = IF ok THEN "ok" ELSE "fail"]
    /\ transports' = [transports EXCEPT ![p] = IF ok THEN Opened(@) ELSE @]
    /\ UNCHANGED <<pool_pc, clients, task_pc, fails, lost, slept>>
    /\ UNCHANGED <<schedVars, fanVars>>
    /\ UNCHANGED <<ingestVars, aggVars, txVars, fnVars>>

\* gather returns once every connect() has settled; connect_all returns.
ConnectAllReturn ==
    /\ pool_pc = "connecting"
    /\ \A p \in Peers : conn_result[p] # "pending"
    /\ pool_pc' = "connected_all"
    /\ UNCHANGED <<clients, client, conn_result, task_pc, fails, lost, slept>>
    /\ UNCHANGED <<taskVars, fanVars>>
    /\ UNCHANGED <<ingestVars, aggVars, txVars, fnVars>>

\* start_listening(): a run_with_reconnect task for every client that is
\* connected.
StartListening ==
    /\ pool_pc = "connected_all"
    /\ pool_pc' = "listening"
    /\ task_pc' = [p \in Peers |->
                      IF p \in clients /\ client[p].is_connected THEN "connect" ELSE "none"]
    /\ tasks' = {p \in clients : client[p].is_connected}
    /\ UNCHANGED <<clients, client, conn_result, fails, lost, slept>>
    /\ UNCHANGED <<cancelling, cancelled_at, frames, last_frame, closes, disconnects,
                   transports>>
    /\ UNCHANGED fanVars
    /\ UNCHANGED <<ingestVars, aggVars, txVars, fnVars>>

\* Mutant of ReplayList: nothing is replayed after a reconnect.
ReplayNothing(c) == <<>>

\* list(self.subscriptions.items()): the ids the for loop of
\* run_with_reconnect will visit
ReplayList(c) == c.subscriptions

\* run_with_reconnect: connect(); on failure sleep(reconnect_delay); on
\* success the for loop over the stored subscriptions starts and runs to
\* the await of the first subscribe()'s send, and listen() is entered at
\* once when nothing is stored.
TaskConnect(p, ok) ==
    /\ task_pc[p] = "connect"
    /\ p \notin cancelling
    /\ ok \/ client[p].error_count < MaxErrors
    /\ client' = [client EXCEPT ![p] = Connect(@, ok)]
    /\ transports' = [transports EXCEPT ![p] = IF ok THEN Opened(@) ELSE @]
    /\ fails' = [fails EXCEPT ![p] = IF ok THEN 0 ELSE @ + 1]
    /\ slept' = [slept EXCEPT ![p] = IF ok THEN @ ELSE client[p].reconnect_delay]
    /\ IF ~ok
       THEN /\ task_pc' = [task_pc EXCEPT ![p] = "sleep_fail"]
            /\ UNCHANGED subVars
       ELSE LET snapshot == ReplayList(client[p]) IN
            /\ stored_at_connect' = [stored_at_connect EXCEPT
                                        ![p] = {client[p].subscriptions[i] :
                                                   i \in 1..Len(client[p].subscriptions)}]
            /\ removed_at_connect' = [removed_at_connect EXCEPT ![p] = removed[p]]
            /\ UNCHANGED removed
            /\ IF snapshot = <<>>
               THEN /\ task_pc' = [task_pc EXCEPT ![p] = "listen"]
                    /\ req_sent' = [req_sent EXCEPT ![p] = {}]
                    /\ UNCHANGED <<replay, resent>>
               ELSE /\ task_pc' = [task_pc EXCEPT ![p] = "resubscribe"]
                    /\ req_sent' = [req_sent EXCEPT ![p] = {Head(snapshot)}]
                    /\ replay' = [replay EXCEPT ![p] = Tail(snapshot)]
                    /\ resent' = [resent EXCEPT ![p] = @ \cup ({Head(snapshot)} \cap removed[p])]
    /\ UNCHANGED <<pool_pc, clients, conn_result, lost>>
    /\ UNCHANGED <<schedVars, fanouts, fanout>>
    /\ UNCHANGED <<ingestVars, aggVars, txVars, fnVars>>

\* run_with_reconnect: the send of the subscribe() under way returns or
\* raises (the exception is logged); the for loop calls subscribe() for the
\* next id of its list, which stores the id and awaits its send, or, at the
\* end of the list, listen() is entered.
ReplayNext(p) ==
    /\ task_pc[p] = "resubscribe"
    /\ p \notin cancelling
    /\ IF replay[p] = <<>>
       THEN /\ task_pc' = [task_pc EXCEPT ![p] = "listen"]
            /\ UNCHANGED <<client, subVars>>
       ELSE LET sub_id == Head(replay[p]) IN
            /\ client' = [client EXCEPT ![p].subscriptions = Store(@, sub_id)]
            /\ replay' = [replay EXCEPT ![p] = Tail(@)]
            /\ req_sent' = [req_sent EXCEPT ![p] = @ \cup {sub_id}]
            /\ resent' = [resent EXCEPT
                             ![p] = @ \cup ({sub_id} \cap removed[p] \cap removed_at_connect[p])]
            /\ UNCHANGED <<task_pc, stored_at_connect, removed, removed_at_connect>>
    /\ UNCHANGED <<pool_pc, clients, conn_result, fails, lost, slept>>
    /\ UNCHANGED <<taskVars, fanouts, fanout>>
    /\ UNCHANGED <<ingestVars, aggVars, txVars, fnVars>>

\* run_with_reconnect: the sleep is over, the delay is doubled up to the
\* ceiling and the loop connects again.
TaskWake(p) ==
    /\ task_pc[p] \in {"sleep_fail", "sleep_lost"}
    /\ p \notin cancelling
    /\ client' = [client EXCEPT ![p].reconnect_delay = NextDelay(@)]
    /\ task_pc' = [task_pc EXCEPT ![p] = "connect"]
    /\ UNCHANGED <<pool_pc, clients, conn_result, fails, lost, slept>>
    /\ UNCHANGED <<taskVars, fanVars>>
    /\ UNCHANGED <<ingestVars, aggVars, txVars, fnVars>>

\* listen(): one frame of the stream goes through _handle_message.  An
\* exception that leaves it ends listen() in its `except Exception` clause.
HandleMessage(p, frame) ==
    /\ task_pc[p] = "listen"
    /\ p \notin cancelling
    /\ frames[p] < MaxFrames
    /\ client[p].error_count < MaxErrors
    /\ frames' = [frames EXCEPT ![p] = @ + 1]
    /\ last_frame' = [last_frame EXCEPT ![p] = frame]
    /\ IF HandleMessageEscapes(frame)
       THEN /\ client' = [client EXCEPT ![p] = [@ EXCEPT !.is_connected = FALSE,
                                                        !.error_count = @ + 1]]
            /\ task_pc' = [task_pc EXCEPT ![p] = "sleep_lost"]
            /\ lost' = [lost EXCEPT ![p] = TRUE]
            /\ slept' = [slept EXCEPT ![p] = client[p].reconnect_delay]
       ELSE /\ client' = [client EXCEPT ![p] = HandleMessageClient(@, frame)]
            /\ UNCHANGED <<task_pc, lost, slept>>
    /\ UNCHANGED <<pool_pc, clients, conn_result, fails>>
    /\ UNCHANGED <<tasks, cancelling, cancelled_at, closes, disconnects, transports>>
    /\ UNCHANGED fanVars
    /\ UNCHANGED <<ingestVars, aggVars, txVars, fnVars>>

\* listen() returns: the stream ended ("ended"), ConnectionClosed was raised
\* ("closed") or another exception ("error"); the task sleeps reconnect_delay.
\* The stream of a transport ends, and its iteration raises, when the
\* transport is closed or has failed.
ListenReturns(p, how) ==
    /\ task_pc[p] = "listen"
    /\ p \notin cancelling
    /\ how = "error" => client[p].error_count < MaxErrors
    /\ client' = [client EXCEPT ![p] =
                    CASE how = "ended" -> @
                      [] how = "closed" -> [@ EXCEPT !.is_connected = FALSE]
                      [] OTHER -> [@ EXCEPT !.is_connected = FALSE,
                                            !.error_count = @ + 1]]
    /\ task_pc' = [task_pc EXCEPT ![p] = "sleep_lost"]
    /\ lost' = [lost EXCEPT ![p] = TRUE]
    /\ slept' = [slept EXCEPT ![p] = client[p].reconnect_delay]
    /\ transports' = [transports EXCEPT ![p] = Closed(@)]
    /\ UNCHANGED <<pool_pc, clients, conn_result, fails>>
    /\ UNCHANGED <<schedVars, fanVars>>
    /\ UNCHANGED <<ingestVars, aggVars, txVars, fnVars>>

\* The cancellation disconnect_all requested reaches the task at the await
\* it is suspended in.  Inside connect() and listen() the await stands in a
\* try block with an `except Exception` clause; the sleeps have no handler.
TaskCancelDelivered(p) ==
    /\ p \in cancelling
    /\ cancelling' = cancelling \ {p}
    /\ IF task_pc[p] \in {"connect", "listen"} /\ ExceptionCatches("CancelledError")
       THEN /\ client' = [client EXCEPT ![p] = [@ EXCEPT !.is_connected = FALSE,
                                                        !.error_count = @ + 1]]
            /\ task_pc' = [task_pc EXCEPT ![p] =
                              IF task_pc[p] = "connect" THEN "sleep_fail" ELSE "sleep_lost"]
       ELSE IF task_pc[p] = "resubscribe" /\ ExceptionCatches("CancelledError")
       THEN UNCHANGED <<task_pc, client>>
       ELSE /\ task_pc' = [task_pc EXCEPT ![p] = "cancelled"]
            /\ UNCHANGED client
    /\ UNCHANGED <<pool_pc, clients, conn_result, fails, lost, slept>>
    /\ UNCHANGED <<tasks, cancelled_at, frames, last_frame, closes, disconnects, transports>>
    /\ UNCHANGED fanVars
    /\ UNCHANGED <<ingestVars, aggVars, txVars, fnVars>>

\* Mutant of ClientsCleared: the clients map is kept.
ClientsKept(cs) == cs

\* self.clients.clear()
ClientsCleared(cs) == {}

\* disconnect(): closes the transport if there is one (self.websocket is
\* never reset, so a closed transport is closed again).
Disconnect(c) == IF c.websocket THEN [c EXCEPT !.is_connected = FALSE] ELSE c

\* disconnect_all(): cancel the tasks of _tasks, disconnect() every client
\* of the map, clear the map and the task list.
DisconnectAll ==
    /\ pool_pc \in {"init", "connected_all", "listening", "closed"}
    /\ disconnects < MaxDisconnects
    /\ disconnects' = disconnects + 1
    /\ pool_pc' = "closed"
    /\ cancelling' = cancelling \cup {p \in tasks : task_pc[p] # "cancelled"}
    /\ cancelled_at' = [p \in Peers |->
                           IF p \in tasks /\ task_pc[p] # "cancelled"
                           THEN task_pc[p] ELSE cancelled_at[p]]
    /\ client' = [p \in Peers |-> IF p \in clients THEN Disconnect(client[p]) ELSE client[p]]
    /\ closes' = closes + Cardinality({p \in clients : client[p].websocket})
    /\ transports' = [p \in Peers |->
                         IF p \in clients /\ client[p].websocket
                         THEN Closed(transports[p]) ELSE transports[p]]
    /\ clients' = ClientsCleared(clients)
    /\ tasks' = {}
    /\ UNCHANGED <<conn_result, task_pc, fails, lost, slept, frames, last_frame>>
    /\ UNCHANGED fanVars
    /\ UNCHANGED <<ingestVars, aggVars, txVars, fnVars>>

\* subscribe(): raises without a transport; else stores the subscription and
\* sends the request, which raises when the send fails.
Subscribe(c, sub_id, sendOk) ==
    IF ~c.websocket THEN [c |-> c, out |-> "raise", sent |-> FALSE]
    ELSE [c |-> [c EXCEPT !.subscriptions = Store(@, sub_id)],
          out |-> IF sendOk THEN "none" ELSE "raise", sent |-> TRUE]

\* unsubscribe(): returns without a transport; else removes a stored
\* subscription and sends the close request.
Unsubscribe(c, sub_id, sendOk) ==
    IF ~c.websocket THEN [c |-> c, out |-> "none", sent |-> FALSE]
    ELSE IF Has(c.subscriptions, sub_id)
         THEN [c |-> [c EXCEPT !.subscriptions = Remove(@, sub_id)],
               out |-> IF sendOk THEN "none" ELSE "raise", sent |-> TRUE]
         ELSE [c |-> c, out |-> "none", sent |-> FALSE]

\* Mutant of PublishEvent: a failed send marks the client as disconnected
\* and counts an error.
PublishEventTearsDown(c, sendOk) ==
    IF ~c.websocket THEN [c |-> c, out |-> "raise", sent |-> FALSE]
    ELSE IF sendOk THEN [c |-> c, out |-> "true", sent |-> TRUE]
    ELSE [c |-> [c EXCEPT !.is_connected = FALSE, !.error_count = @ + 1],
          out |-> "false", sent |-> TRUE]

\* publish_event(): raises without a transport; a failed send is caught and
\* returned as False.
PublishEvent(c, sendOk) ==
    IF ~c.websocket THEN [c |-> c, out |-> "raise", sent |-> FALSE]
    ELSE [c |-> c, out |-> IF sendOk THEN "true" ELSE "false", sent |-> TRUE]

SinglePeerOp(op, c, sub_id, sendOk) ==
    CASE op = "subscribe" -> Subscribe(c, sub_id, sendOk)
      [] op = "unsubscribe" -> Unsubscribe(c, sub_id, sendOk)
      [] OTHER -> PublishEvent(c, sendOk)

\* Mutant of GatherRaises: gather without return_exceptions.
GatherPropagates(outs) == \E p \in DOMAIN outs : outs[p] = "raise"

\* asyncio.gather(..., return_exceptions=True) returns the exceptions as
\* results and raises nothing.
GatherRaises(outs) == FALSE

\* subscribe_all / unsubscribe_all / publish_to_all: the single-peer call for
\* every client that is connected, gathered; `ok` are the peers whose send
\* succeeds, `sub_id` the subscription id of subscribe_all and
\* unsubscribe_all.
FanOut(op, sub_id, ok) ==
    /\ pool_pc \in {"connected_all", "listening"}
    /\ fanouts < MaxFanouts
    /\ fanouts' = fanouts + 1
    /\ LET targets == {p \in clients : client[p].is_connected}
           res == [p \in targets |-> SinglePeerOp(op, client[p], sub_id, p \in ok)]
           acted == {p \in targets : res[p].sent}
           outs == [p \in targets |-> res[p].out]
       IN  /\ client' = [p \in Peers |-> IF p \in targets THEN res[p].c ELSE client[p]]
           /\ fanout' = [op |-> op, sub_id |-> IF op = "publish" THEN "none" ELSE sub_id,
                         targets |-> targets,
                         attempted |-> DOMAIN res,
                         done |-> {p \in targets : res[p].sent},
                         sendOk |-> ok,
                         results |-> IF op = "publish"
                                     THEN [p \in targets |-> outs[p] = "true"]
                                     ELSE [p \in {} |-> FALSE],
                         raised |-> GatherRaises(outs)]
           /\ req_sent' = [p \in Peers |->
                              IF op = "subscribe" /\ p \in acted
                              THEN req_sent[p] \cup {sub_id} ELSE req_sent[p]]
           /\ removed' = [p \in Peers |->
                             CASE op = "subscribe" /\ p \in acted -> removed[p] \ {sub_id}
                               [] op = "unsubscribe" /\ p \in acted -> removed[p] \cup {sub_id}
                               [] OTHER -> removed[p]]
           /\ UNCHANGED <<replay, stored_at_connect, removed_at_connect, resent>>
    /\ UNCHANGED <<pool_pc, clients, conn_result, task_pc, fails, lost, slept>>
    /\ UNCHANGED taskVars
    /\ UNCHANGED <<ingestVars, aggVars, txVars, fnVars>>

NextPool ==
    \/ ConnectAllBegin
    \/ \E p \in Peers, ok \in BOOLEAN : ConnectAllSettle(p, ok)
    \/ ConnectAllReturn
    \/ StartListening
    \/ \E p \in Peers, ok \in BOOLEAN : TaskConnect(p, ok)
    \/ \E p \in Peers : TaskWake(p)
    \/ \E p \in Peers, how \in {"ended", "closed", "error"} : ListenReturns(p, how)
    \/ DisconnectAll
    \/ \E p \in Peers : TaskCancelDelivered(p)


\* ------------------------------------------------------------------------
\* MetricsAggregator
\* ------------------------------------------------------------------------
MaxRuns == 3
AggInterval == 1
MinMentions == 3
MaxSamples == 5

\* str.lower() on the hashtags of this model
Lower(h) == IF h = "Nostr" THEN "nostr" ELSE h

LowerAll(tags) == [i \in 1..Len(tags) |-> Lower(tags[i])]

Range(f) == {f[i] : i \in DOMAIN f}

\* Ascending sequence of a finite set of integers
RECURSIVE Sorted(_)
Sorted(S) ==
    IF S = {} THEN <<>>
    ELSE LET m == CHOOSE x \in S : \A y \in S : x <= y IN <<m>> \o Sorted(S \ {m})

Prefix(q, n) == [i \in 1..Min(Len(q), n) |-> q[i]]

Occurrences(q, x) == Cardinality({i \in 1..Len(q) : q[i] = x})

RECURSIVE SumOver(_, _)
SumOver(q, f) == IF q = <<>> THEN 0 ELSE f[Head(q)] + SumOver(Tail(q), f)

\* q repeated n times
RECURSIVE Repeat(_, _)
Repeat(x, n) == IF n <= 0 THEN <<>> ELSE <<x>> \o Repeat(x, n - 1)

\* The "events" list of a hashtag: the event id of a row is appended once
\* for every occurrence of the hashtag in the row's hashtags.
RECURSIVE MentionEvents(_, _, _)
MentionEvents(order, seen, h) ==
    IF order = <<>> THEN <<>>
    ELSE Repeat(Head(order), Occurrences(seen[Head(order)].hashtags, h))
            \o MentionEvents(Tail(order), seen, h)

\* Mutant of Qualifies: no threshold.
QualifiesAlways(mention_count) == TRUE

\* `if mention_count < 3: continue`
Qualifies(mention_count) == mention_count >= MinMentions

\* sample_events = stats["events"][:5]
SampleEvents(events) == Prefix(events, MaxSamples)

AggTables == [cm |-> content_metrics, tt |-> trending_topics, ns |-> network_stats]

EmptyAggSession == [cm |-> EmptyTable, tt |-> {}, ns |-> {}]

\* _compute_event_metrics for the note `id` at time t
EventMetrics(id, t) ==
    LET e == EventOf(id) IN
    [author_pubkey |-> e.pubkey, created_at |-> e.created_at,
     hashtags |-> LowerAll(e.t_tags), computed_at |-> t]

\* _aggregate_content_metrics: every note of the last 7 days gets its
\* metrics set on its existing row or on a new, pending row.
ContentPass(sess, events, t) ==
    LET notes == {id \in DOMAIN events :
                     /\ events[id].kind = KIND_TEXT_NOTE
                     /\ EventOf(id).created_at >= t - ContentWindow}
    IN  [sess EXCEPT !.cm = [id \in notes |-> EventMetrics(id, t)]]

\* _aggregate_trending_topics: the query reads the committed rows (autoflush
\* is off, so pending inserts are not in the table); a row the session has
\* already loaded and changed is seen with its changed attributes.
TrendingPass(sess, tbls, t) ==
    LET rows == {id \in DOMAIN tbls.cm : tbls.cm[id].created_at >= t - TrendingWindow}
        seen == [id \in rows |-> IF id \in DOMAIN sess.cm THEN sess.cm[id] ELSE tbls.cm[id]]
        order == Sorted(rows)
        tags == UNION {Range(seen[id].hashtags) : id \in rows}
        count(h) == SumOver(order, [id \in rows |-> Occurrences(seen[id].hashtags, h)])
        events(h) == MentionEvents(order, seen, h)
        authors(h) == {seen[id].author_pubkey :
                          id \in {x \in rows : Occurrences(seen[x].hashtags, h) > 0}}
    IN  [sess EXCEPT !.tt =
            {[id |-> 0, hashtag |-> h, mention_count |-> count(h),
              unique_authors |-> Cardinality(authors(h)),
              window_end |-> t,
              sample_event_ids |-> SampleEvents(events(h))] :
                h \in {x \in tags : Qualifies(count(x))}}]

\* _compute_network_stats: one pending row stamped `now`
NetworkPass(sess, events, profiles, t) ==
    [sess EXCEPT !.ns =
        {[id |-> 0, timestamp |-> t,
          total_users |-> Cardinality(DOMAIN profiles),
          total_events |-> Cardinality(DOMAIN events),
          notes_24h |-> Cardinality({id \in DOMAIN events :
                                        /\ events[id].kind = KIND_TEXT_NOTE
                                        /\ EventOf(id).created_at >= t - TrendingWindow})]}]

\* The session when the run raises in `failAt`, or reaches its commit.
AggSession(failAt, tbls, events, profiles, t) ==
    LET s1 == ContentPass(EmptyAggSession, events, t)
        s2 == TrendingPass(s1, tbls, t)
        s3 == NetworkPass(s2, events, profiles, t)
    IN  CASE failAt = "content" -> EmptyAggSession
          [] failAt = "trending" -> s1
          [] failAt = "network" -> s2
          [] OTHER -> s3

\* The rows of `pending` with the autoincrement ids the insert gives them
Inserted(tbl, pending) ==
    LET n == Cardinality(pending)
        rank == CHOOSE f \in [pending -> 1..n] : \A r, q \in pending : f[r] = f[q] => r = q
    IN  {[r EXCEPT !.id = Cardinality(tbl) + rank[r]] : r \in pending}

\* Mutant of AggCommit: a trending row replaces the earlier rows of its hashtag.
AggCommitUpsert(tbls, sess) ==
    [cm |-> [id \in DOMAIN tbls.cm \cup DOMAIN sess.cm |->
                IF id \in DOMAIN sess.cm THEN sess.cm[id] ELSE tbls.cm[id]],
     tt |-> {r \in tbls.tt : \A q \in sess.tt : q.hashtag # r.hashtag}
               \cup Inserted(tbls.tt, sess.tt),
     ns |-> tbls.ns \cup Inserted(tbls.ns, sess.ns)]

\* session.commit(): the pending rows and changes reach the tables.
AggCommit(tbls, sess) ==
    [cm |-> [id \in DOMAIN tbls.cm \cup DOMAIN sess.cm |->
                IF id \in DOMAIN sess.cm THEN sess.cm[id] ELSE tbls.cm[id]],
     tt |-> tbls.tt \cup Inserted(tbls.tt, sess.tt),
     ns |-> tbls.ns \cup Inserted(tbls.ns, sess.ns)]

\* Mutant of AggRollback: what the passes did before the failure is kept.
AggRollbackKeeps(tbls, sess) == AggCommit(tbls, sess)

\* session.rollback(): pending rows are dropped, changed rows expire.
AggRollback(tbls, sess) == tbls

\* Mutant of AggCommitFails: no unique constraint on the timestamp.
AggCommitNeverFails(tbls, sess) == FALSE

\* network_stats.timestamp is unique
AggCommitFails(tbls, sess) ==
    \E r \in sess.ns : \E q \in tbls.ns : q.timestamp = r.timestamp

\* Mutant of AggLoopAfter: the try is around the while, a failed run ends
\* the loop.
AggLoopExits(raises) == IF raises THEN "exited" ELSE "sleep"

\* Where the aggregator loop is after a run: the try/except is inside the
\* while, so a run that raised is logged and counted and the loop goes back
\* to its sleep.
AggLoopAfter(raises) == "sleep"

InitTx ==
    /\ agg_pc = "idle"
    /\ flush_open = 0
    /\ agg_open = 0
    /\ executing = "none"
    /\ tx_flushes = 0
    /\ blocked = [r \in Relays |-> <<>>]

InitAgg ==
    /\ content_metrics = EmptyTable
    /\ trending_topics = {}
    /\ network_stats = {}
    /\ agg_runs = 0
    /\ agg_ok = 0
    /\ agg_last = [outcome |-> "none", failAt |-> "none", at |-> 0, pre |-> AggTables,
                   pending |-> EmptyAggSession]

\* The ingestion loop commits a batch that holds the note `id`.
NoteCommitted(id, relay) ==
    /\ id \notin DOMAIN nostr_events
    /\ LET p == ProcessEvent(EventOf(id), relay, now) IN
          nostr_events' = MergedEvents(nostr_events,
                                       SaveEvent(EmptySession, p, [id |-> id, relay |-> relay], {}).events)
    /\ UNCHANGED <<now, running, event_buffer, batch, last_batch_time, loop_pc,
                   user_profiles, zaps, flush, enqueued, delivered,
                   stats>>
    /\ UNCHANGED <<poolVars, aggVars, txVars, fnVars>>

\* _metrics_aggregator_loop: sleep the interval, then run_aggregation in a
\* session of its own.  `failAt` is the step that raises, if any; `dt` is
\* how far datetime.utcnow() has moved since the previous run (the wall
\* clock can be set back by the interval).
RunAggregation(failAt, dt) ==
    /\ running
    /\ agg_pc = "sleep"
    /\ agg_runs < MaxRuns
    /\ agg_runs' = agg_runs + 1
    /\ now' = now + dt
    /\ LET t == now + dt
           sess == AggSession(failAt, AggTables, nostr_events, user_profiles, t)
           raises == failAt # "none" \/ AggCommitFails(AggTables, sess)
           after == IF raises THEN AggRollback(AggTables, sess)
                    ELSE AggCommit(AggTables, sess)
       IN  /\ content_metrics' = after.cm
           /\ trending_topics' = after.tt
           /\ network_stats' = after.ns
           /\ agg_ok' = IF raises THEN agg_ok ELSE agg_ok + 1
           /\ agg_last' = [outcome |-> IF raises THEN "raised" ELSE "committed",
                           failAt |-> failAt, at |-> t, pre |-> AggTables,
                           pending |-> sess]
           /\ agg_pc' = AggLoopAfter(raises)
    /\ UNCHANGED <<running, event_buffer, batch, last_batch_time, loop_pc,
                   nostr_events, user_profiles, zaps, flush, enqueued, delivered,
                   stats>>
    /\ UNCHANGED <<flush_open, agg_open, executing, tx_flushes, blocked>>
    /\ UNCHANGED <<poolVars, fnVars>>

NextAgg ==
    \/ Start
    \/ \E id \in NoteIds : NoteCommitted(id, "r1")
    \/ \E failAt \in {"none", "content", "trending", "network", "commit"},
          dt \in {0, AggInterval} :
          RunAggregation(failAt, dt)

\* A function of the processor or the calculator that was not called yet,
\* and one that returned v.
NotCalled == [done |-> FALSE]

Returned(v) == [done |-> TRUE, value |-> v]

ZeroCounts == [zap_count |-> 0, zap_total_sats |-> 0, reply_count |-> 0,
               repost_count |-> 0, reaction_count |-> 0]

InitParseFn == in_bolt11 = <<>> /\ out_amount_msats = NotCalled

InitReplyFn == in_tags = <<>> /\ out_reply_to = NotCalled

InitViralityFn == in_counts = ZeroCounts /\ in_age_hours = 0 /\ out_virality_score = NotCalled

Init == InitIngest /\ InitPool /\ InitAgg /\ InitTx /\ InitParseFn /\ InitReplyFn /\ InitViralityFn

Next ==
    \/ Start
    \/ \E id \in DeliverIds, relay \in Relays : OnEventReceived(id, relay)
    \/ LoopGet
    \/ LoopTimeout
    \/ LoopErrorSleep
    \/ Stop

Spec == Init /\ [][Next]_vars

\* The ingestion loop fed with the events of PayloadIds
NextPayload ==
    \/ Start
    \/ \E id \in PayloadIds, relay \in Relays : OnEventReceived(id, relay)
    \/ LoopGet
    \/ LoopTimeout
    \/ LoopErrorSleep
    \/ Stop

PayloadSpec == Init /\ [][NextPayload]_vars

\* ------------------------------------------------------------------------
\* The sessions of the flushes and of the aggregation runs
\* ------------------------------------------------------------------------
MaxTxFlushes == 3

\* Mutant of Suspends: the body of a flush or of a run awaits something
\* that suspends it while its session is open.
SuspendsInSession(task) == TRUE

\* Whether a task gives up the event loop's thread between opening its
\* session and leaving it: _process_batch has no await inside
\* `with get_session()`, and run_aggregation awaits only coroutines of the
\* aggregator that await nothing further.
Suspends(task) == FALSE

\* Mutant of TxClosed: get_session leaves the transaction open.
TxLeftOpen(n) == n

\* get_session: on leaving the block the session is committed, or rolled
\* back on an exception, and closed.
TxClosed(n) == n - 1

\* _process_batch enters `with self.db_manager.get_session()`.
TxFlushBegin ==
    /\ running
    /\ loop_pc = "wait"
    /\ executing = "none"
    /\ tx_flushes < MaxTxFlushes
    /\ tx_flushes' = tx_flushes + 1
    /\ loop_pc' = "in_flush"
    /\ flush_open' = flush_open + 1
    /\ executing' = IF Suspends("ingest") THEN "none" ELSE "ingest"
    /\ UNCHANGED <<now, running, event_buffer, batch, last_batch_time, nostr_events,
                   user_profiles, zaps, flush, enqueued, delivered,
                   stats>>
    /\ UNCHANGED <<agg_pc, agg_open, blocked>>
    /\ UNCHANGED <<poolVars, aggVars, fnVars>>

\* _process_batch leaves the block: `ok` is whether the commit succeeded;
\* when it raised, the loop is in its `except Exception` and sleeps.
TxFlushEnd(ok) ==
    /\ loop_pc = "in_flush"
    /\ executing = IF Suspends("ingest") THEN "none" ELSE "ingest"
    /\ flush_open' = TxClosed(flush_open)
    /\ loop_pc' = IF ok THEN "wait" ELSE "sleep_err"
    /\ executing' = "none"
    /\ UNCHANGED <<now, running, event_buffer, batch, last_batch_time, nostr_events,
                   user_profiles, zaps, flush, enqueued, delivered,
                   stats>>
    /\ UNCHANGED <<agg_pc, agg_open, tx_flushes, blocked>>
    /\ UNCHANGED <<poolVars, aggVars, fnVars>>

\* _metrics_aggregator_loop enters `with self.db_manager.get_session()`
\* after its sleep.
TxAggBegin ==
    /\ running
    /\ agg_pc = "sleep"
    /\ executing = "none"
    /\ agg_runs < MaxRuns
    /\ agg_runs' = agg_runs + 1
    /\ agg_pc' = "in_run"
    /\ agg_open' = agg_open + 1
    /\ executing' = IF Suspends("aggregator") THEN "none" ELSE "aggregator"
    /\ UNCHANGED <<content_metrics, trending_topics, network_stats, agg_ok, agg_last>>
    /\ UNCHANGED <<flush_open, tx_flushes, blocked>>
    /\ UNCHANGED <<ingestVars, poolVars, fnVars>>

\* The run leaves the block: `ok` is whether it committed.
TxAggEnd(ok) ==
    /\ agg_pc = "in_run"
    /\ executing = IF Suspends("aggregator") THEN "none" ELSE "aggregator"
    /\ agg_open' = TxClosed(agg_open)
    /\ agg_pc' = AggLoopAfter(~ok)
    /\ executing' = "none"
    /\ UNCHANGED <<flush_open, tx_flushes, blocked>>
    /\ UNCHANGED <<ingestVars, poolVars, aggVars, fnVars>>

NextTx ==
    \/ Start
    \/ TxFlushBegin
    \/ \E ok \in BOOLEAN : TxFlushEnd(ok)
    \/ TxAggBegin
    \/ \E ok \in BOOLEAN : TxAggEnd(ok)
    \/ LoopErrorSleep
    \/ Stop

TxSpec == Init /\ [][NextTx]_vars

\* The ingestion loop fed by one relay with two events
NextTrigger ==
    \/ Start
    \/ \E id \in {1, 3} : OnEventReceived(id, "r1")
    \/ LoopGet
    \/ LoopTimeout
    \/ LoopErrorSleep
    \/ Stop

\* The same with one delivery more than a batch holds
NextBacklog ==
    \/ Start
    \/ \E id \in {1, 3} : OnEventReceivedUpTo(id, "r1", MaxBacklogDeliveries)
    \/ LoopGet
    \/ LoopTimeout
    \/ LoopErrorSleep
    \/ Stop

BacklogSpec == Init /\ [][NextBacklog]_vars

\* The ingestion loop with both relays pushing into the queue
NextQueue ==
    \/ Start
    \/ \E id \in {1, 3}, relay \in Relays :
          OnEventReceivedUpTo(id, relay, MaxBacklogDeliveries)
    \/ \E id \in {1, 3}, relay \in Relays : PutBlocks(id, relay)
    \/ \E relay \in Relays : PutResumes(relay)
    \/ LoopGet
    \/ LoopTimeout
    \/ LoopErrorSleep
    \/ Stop

QueueSpec == Init /\ [][NextQueue]_vars

\* The event loop resumes the ingestion loop's task when its poll returns
\* or times out and when its sleep is over.
TriggerSpec == Init /\ [][NextTrigger]_vars

TriggerFairSpec ==
    /\ TriggerSpec
    /\ WF_vars(LoopGet) /\ WF_vars(LoopTimeout) /\ WF_vars(LoopErrorSleep)

PoolSpec == Init /\ [][NextPool]_vars

\* One subscribe_all, then the streams with frames that are malformed
NextFrame ==
    \/ ConnectAllBegin
    \/ \E p \in Peers, ok \in BOOLEAN : ConnectAllSettle(p, ok)
    \/ ConnectAllReturn
    \/ FanOut("subscribe", "main", Peers)
    \/ StartListening
    \/ \E p \in Peers : TaskConnect(p, TRUE)
    \/ \E p \in Peers : ReplayNext(p)
    \/ \E p \in Peers, frame \in MalformedFrames \cup {"event_ok"} : HandleMessage(p, frame)
    \/ \E p \in Peers : ListenReturns(p, "closed")
    \/ \E p \in Peers : TaskWake(p)

FrameSpec == Init /\ [][NextFrame]_vars

\* The pool with the frames of the streams; the connects of the tasks
\* succeed (PoolSpec has the failing ones).
NextListen ==
    \/ ConnectAllBegin
    \/ \E p \in Peers, ok \in BOOLEAN : ConnectAllSettle(p, ok)
    \/ ConnectAllReturn
    \/ StartListening
    \/ \E p \in Peers : TaskConnect(p, TRUE)
    \/ \E p \in Peers, frame \in FrameKinds : HandleMessage(p, frame)
    \/ \E p \in Peers, how \in {"ended", "closed", "error"} : ListenReturns(p, how)
    \/ \E p \in Peers : TaskWake(p)
    \/ DisconnectAll
    \/ \E p \in Peers : TaskCancelDelivered(p)

ListenSpec == Init /\ [][NextListen]_vars

\* The pool's fan-out calls
NextFanOut ==
    \/ ConnectAllBegin
    \/ \E p \in Peers, ok \in BOOLEAN : ConnectAllSettle(p, ok)
    \/ ConnectAllReturn
    \/ StartListening
    \/ \E p \in Peers : TaskConnect(p, TRUE)
    \/ \E p \in Peers, how \in {"ended", "closed"} : ListenReturns(p, how)
    \/ \E op \in {"subscribe", "unsubscribe", "publish"}, ok \in SUBSET Peers :
          FanOut(op, "main", ok)
    \/ \E p \in Peers : ReplayNext(p)

FanOutSpec == Init /\ [][NextFanOut]_vars

AggSpec == Init /\ [][NextAgg]_vars

\* Every run_with_reconnect task that can take a step eventually takes one
\* (the event loop schedules every ready task).
PoolFairSpec ==
    /\ PoolSpec
    /\ \A p \in Peers :
          /\ WF_vars(\E ok \in BOOLEAN : TaskConnect(p, ok))
          /\ WF_vars(TaskWake(p))

\* ------------------------------------------------------------------------
\* Properties of the ingestion loop
\* ------------------------------------------------------------------------
Ids(b) == {b[i].id : i \in 1..Len(b)}

FirstIndex(b, id) == CHOOSE i \in 1..Len(b) : b[i].id = id /\ \A k \in 1..(i - 1) : b[k].id # id

ProcessOk(entry) == ProcessEvent(EventOf(entry.id), entry.relay, flush.at).ok

\* An event whose processing yields a record that satisfies the table's
\* constraints.
Persistable(id) ==
    /\ id # NoId
    /\ ProcessEvent(EventOf(id), "r1", 0).ok
    /\ RowValid(EventOf(id))

\* C1: at-least-once delivery.  Every event that was put on the inbound queue
\* and yields a storable record is persisted; stated on the final state: once
\* the ingestion loop has ended, every such event has its row.
C1_AtLeastOnce ==
    loop_pc = "exited" =>
        \A id \in enqueued : Persistable(id) => id \in DOMAIN nostr_events

\* C2: batch deduplication.  In every flush, each id of the batch has exactly
\* one entry in the deduplicated batch, that entry is the id's first entry in
\* batch order, the survivors keep their relative order, and no id is handed
\* to save_event twice (what is handed is the id's first entry, in order).
C2_BatchDedup ==
    flush.outcome # "none" =>
        LET b == flush.batch
            u == flush.unique
            h == flush.handed
        IN  /\ \A id \in Ids(b) \ {NoId} :
                  /\ Cardinality({j \in 1..Len(u) : u[j].id = id}) = 1
                  /\ \E j \in 1..Len(u) : u[j] = b[FirstIndex(b, id)]
            /\ \A j \in 1..Len(u) : u[j].id \in Ids(b) \ {NoId}
            /\ \A j1, j2 \in 1..Len(u) :
                  j1 < j2 => FirstIndex(b, u[j1].id) < FirstIndex(b, u[j2].id)
            /\ \A k \in 1..Len(h) : h[k] = b[FirstIndex(b, h[k].id)]
            /\ \A k1, k2 \in 1..Len(h) :
                  k1 < k2 => FirstIndex(b, h[k1].id) < FirstIndex(b, h[k2].id)

\* A committed flush of a batch that carries one id from two relays, with
\* another id between the two copies.
C2_Witness ==
    /\ flush.outcome = "committed"
    /\ Len(flush.unique) >= 2
    /\ Len(flush.handed) >= 1
    /\ \E i, j \in 1..Len(flush.batch) :
          /\ i + 1 < j
          /\ flush.batch[i].id = flush.batch[j].id
          /\ flush.batch[i].id # NoId
          /\ flush.batch[i].relay # flush.batch[j].relay

\* C7: persistence-error isolation.  When persisting one message of a batch
\* fails, at save time or at commit (no storage-wide fault), every other
\* message of the batch that has a valid record is persisted by that flush.
C7_PersistenceIsolation ==
    (flush.outcome # "none" /\ ~flush.commitFault) =>
        \A j \in 1..Len(flush.unique) :
            LET e == flush.unique[j] IN
            (Persistable(e.id) /\ e.id \notin flush.saveFault) =>
                /\ e.id \in DOMAIN nostr_events
                /\ nostr_events[e.id].received_at = flush.at
                /\ nostr_events[e.id].relay_url = e.relay

\* C8: processing-failure isolation.  In every flush, an entry of the
\* deduplicated batch is handed to save_event exactly if process_event
\* returned a record for it; an entry whose processing failed gets no row,
\* and after a commit every other entry that was saved has its row from
\* this flush.
C8_ProcessingIsolation ==
    flush.outcome # "none" =>
        \A j \in 1..Len(flush.unique) :
            LET e == flush.unique[j] IN
            /\ ProcessOk(e) <=> \E k \in 1..Len(flush.handed) : flush.handed[k] = e
            /\ ~ProcessOk(e) => e.id \notin DOMAIN nostr_events
            /\ (ProcessOk(e) /\ flush.outcome = "committed" /\ e.id \notin flush.saveFault) =>
                  /\ e.id \in DOMAIN nostr_events
                  /\ nostr_events[e.id].received_at = flush.at

\* A committed flush in which an entry whose processing failed precedes an
\* entry that was persisted.
C8_Witness ==
    /\ flush.outcome = "committed"
    /\ \E i, j \in 1..Len(flush.unique) :
          /\ i < j
          /\ ~ProcessOk(flush.unique[i])
          /\ ProcessOk(flush.unique[j])
          /\ flush.unique[j].id \in DOMAIN nostr_events

\* C9: RawMessage immutability.  No step changes a field other than
\* `processed` of a row of nostr_events that is already persisted.
RowsKept ==
    \A id \in DOMAIN nostr_events :
        /\ id \in DOMAIN nostr_events'
        /\ nostr_events'[id].pubkey = nostr_events[id].pubkey
        /\ nostr_events'[id].kind = nostr_events[id].kind
        /\ nostr_events'[id].relay_url = nostr_events[id].relay_url
        /\ nostr_events'[id].received_at = nostr_events[id].received_at

C9_RawImmutable == [][RowsKept]_vars

\* C10: UserProfile upsert.  After a committed flush that saved a profile
\* update whose body parsed as a metadata object, the author has a row in
\* user_profiles.
C10_ProfileUpsert ==
    flush.outcome = "committed" =>
        \A k \in 1..Len(flush.handed) :
            LET e == EventOf(flush.handed[k].id) IN
            (e.kind = KIND_METADATA /\ ProcessMetadata(e) = "dict") =>
                e.pubkey \in DOMAIN user_profiles

\* C11: payment persistence.  After a committed flush, a payment receipt that
\* was handed to storage has a row in zaps if and only if an amount was
\* recovered from its invoice, a recovered amount of zero included.
C11_PaymentPersistence ==
    flush.outcome = "committed" =>
        \A k \in 1..Len(flush.handed) :
            LET id == flush.handed[k].id IN
            EventOf(id).kind = KIND_ZAP =>
                (id \in DOMAIN zaps <=> ParseBolt11Amount(Bolt11Of(id)) # AmountUnknown)

\* C12: profile partial success.  For a profile update whose body does not
\* parse as a metadata object, process_event returns the envelope without a
\* profile payload, a committed flush persists the raw event (unless its
\* save met a storage fault), and the author gets no row in user_profiles.
C12_ProfilePartialSuccess ==
    flush.outcome = "committed" =>
        \A k \in 1..Len(flush.unique) :
            LET entry == flush.unique[k]
                e == EventOf(entry.id)
                p == ProcessEvent(e, entry.relay, flush.at)
            IN  (e.kind = KIND_METADATA /\ ProcessMetadata(e) # "dict") =>
                    /\ p.ok
                    /\ p.metadata = "none"
                    /\ entry.id \notin flush.saveFault => entry.id \in DOMAIN nostr_events
                    /\ e.pubkey \notin DOMAIN user_profiles

\* ------------------------------------------------------------------------
\* Properties of the relay pool
\* ------------------------------------------------------------------------
RECURSIVE Pow2(_)
Pow2(n) == IF n <= 0 THEN 1 ELSE 2 * Pow2(n - 1)

\* C4 (as stated): while a task sleeps after its N-th failed connect in a
\* row, the delay it sleeps is min(floor * 2^N, ceiling).
C4_BackoffAsStated ==
    \A p \in Peers :
        task_pc[p] = "sleep_fail" =>
            slept[p] = Min(FloorDelay * Pow2(fails[p]), MaxReconnectDelay)

\* C4 (amended): while a task sleeps after its N-th failed connect in a row,
\* the delay it sleeps is min(floor * 2^(N-1), ceiling) when the failures are
\* counted from the start of the supervising loop, and min(floor * 2^N,
\* ceiling) when they follow a successful connect made by the loop, whose
\* sleep after the lost stream has doubled the delay once already.
C4_BackoffDelay ==
    \A p \in Peers :
        task_pc[p] = "sleep_fail" =>
            slept[p] = Min(FloorDelay * Pow2(fails[p] - 1 + (IF lost[p] THEN 1 ELSE 0)),
                           MaxReconnectDelay)

\* One task sleeps the ceiling after failures from the start of its loop,
\* another sleeps after repeated failures that follow a lost stream.
C4_Witness ==
    /\ \E p \in Peers :
          task_pc[p] = "sleep_fail" /\ ~lost[p] /\ slept[p] = MaxReconnectDelay
    /\ \E q \in Peers :
          task_pc[q] = "sleep_fail" /\ lost[q] /\ fails[q] >= 2

\* C5: transport-error recovery.  While the pool is listening, a configured
\* peer that is not connected (its connect failed, in connect_all or later,
\* or its stream was lost) eventually makes a further connect attempt.
C5_Recovery ==
    \A p \in Peers :
        [](((pool_pc = "listening") /\ ~client[p].is_connected)
              => <>((task_pc[p] = "connect") \/ (pool_pc # "listening")))

\* C6: partial connectivity.  When connect_all has returned, every connect
\* has settled, and get_stats reports one entry per configured peer, as many
\* connected peers as connects succeeded, and at least one error for every
\* peer whose connect failed.
C6_PartialConnectivity ==
    pool_pc = "connected_all" =>
        /\ \A p \in Peers : conn_result[p] \in {"ok", "fail"}
        /\ GetStats.total_relays = Cardinality(Peers)
        /\ DOMAIN GetStats.relays = Peers
        /\ GetStats.connected_relays = Cardinality({p \in Peers : conn_result[p] = "ok"})
        /\ \A p \in Peers :
              /\ GetStats.relays[p].connected <=> conn_result[p] = "ok"
              /\ conn_result[p] = "fail" => GetStats.relays[p].errors >= 1

\* connect_all has returned with one peer connected and another failed.
C6_Witness ==
    /\ pool_pc = "connected_all"
    /\ \E p, q \in Peers : conn_result[p] = "ok" /\ conn_result[q] = "fail"

\* A step in which the client of p handled a frame whose callback raised.
CallbackRaised(p) ==
    /\ frames'[p] = frames[p] + 1
    /\ last_frame'[p] \in {"event_raise", "event_raise_nondict"}

\* C13: callback isolation.  A step of listen() in which the registered
\* callback raises leaves the task in listen(), consuming the stream, and
\* leaves the connected flag (and the transport) as they were.
C13_StepIsolated ==
    \A p \in Peers :
        CallbackRaised(p) =>
            /\ task_pc'[p] = "listen"
            /\ client'[p].is_connected = client[p].is_connected
            /\ client'[p].is_connected
            /\ client'[p].websocket

C13_CallbackIsolated == [][C13_StepIsolated]_vars

\* A listen() that has just handled a frame whose callback raised, after an
\* earlier frame, and is still in its loop and connected.
C13_Witness ==
    \E p \in Peers :
        /\ frames[p] = 2
        /\ last_frame[p] = "event_raise"
        /\ task_pc[p] = "listen"
        /\ client[p].is_connected

\* C14: callback errors are counted.  A step of listen() in which the
\* registered callback raises increases the client's error counter by one.
C14_StepCounted ==
    \A p \in Peers :
        CallbackRaised(p) => client'[p].error_count = client[p].error_count + 1

C14_CallbackCounted == [][C14_StepCounted]_vars

\* C15: fan-out isolation.  After subscribe_all, unsubscribe_all or
\* publish_to_all the single-peer operation was attempted on every client
\* that was connected at the call, and took effect on each of them whatever
\* happened to the others; nothing was raised to the caller; publish_to_all
\* returned one entry per such client, true iff its send succeeded.
C15_FanOutIsolation ==
    fanout.op # "none" =>
        /\ fanout.attempted = fanout.targets
        /\ ~fanout.raised
        /\ fanout.op \in {"subscribe", "publish"} => fanout.done = fanout.targets
        /\ fanout.op = "publish" =>
              /\ DOMAIN fanout.results = fanout.targets
              /\ \A p \in fanout.targets : fanout.results[p] <=> p \in fanout.sendOk
        /\ fanout.op = "subscribe" /\ fanouts = 1 =>
              \A p \in fanout.targets : Has(client[p].subscriptions, "main")

\* A subscribe_all over two connected clients in which the send of one failed
\* and the send of the other succeeded.
C15_Witness ==
    /\ fanout.op = "subscribe"
    /\ Cardinality(fanout.targets) = 2
    /\ \E p, q \in fanout.targets : p \in fanout.sendOk /\ q \notin fanout.sendOk

\* C16: disconnect_all is idempotent.  A call of disconnect_all on a pool
\* that the previous call has closed changes nothing: the pool still has no
\* clients and no tasks, no client is touched, no transport is closed and no
\* task is cancelled.
C16_StepIdempotent ==
    (pool_pc = "closed" /\ disconnects' = disconnects + 1) =>
        /\ clients = {} /\ clients' = {}
        /\ tasks = {} /\ tasks' = {}
        /\ client' = client
        /\ closes' = closes
        /\ cancelling' = cancelling
        /\ task_pc' = task_pc
        /\ pool_pc' = "closed"

C16_DisconnectIdempotent == [][C16_StepIdempotent]_vars

\* disconnect_all was called twice on a pool that had open transports and
\* running tasks.
C16_Witness ==
    /\ disconnects = 2
    /\ closes >= 1
    /\ \E p \in Peers : cancelled_at[p] # "none"

\* A step in which the task of p finishes a connect attempt.
ConnectAttempted(p) ==
    task_pc[p] = "connect" /\ task_pc'[p] \in {"listen", "sleep_fail"}

\* A step in which the client of p hands an event to the callback.
EventDelivered(p) ==
    frames'[p] = frames[p] + 1 /\ last_frame'[p] \in EventFrames

\* C17: shutdown ordering.  Once disconnect_all has cancelled the task of a
\* peer, that peer makes no connect attempt and delivers no event, wherever
\* the task was at that moment.
C17_StepQuiet ==
    \A p \in Peers :
        cancelled_at[p] # "none" => ~ConnectAttempted(p) /\ ~EventDelivered(p)

C17_ShutdownOrdering == [][C17_StepQuiet]_vars

\* The cancellation has reached two tasks, one that was listening and one
\* that was sleeping in backoff, after the streams had delivered events.
C17_Witness ==
    /\ cancelling = {}
    /\ \E p, q \in Peers :
          /\ cancelled_at[p] = "listen" /\ task_pc[p] = "cancelled" /\ frames[p] >= 1
          /\ cancelled_at[q] = "sleep_lost" /\ task_pc[q] = "cancelled"

\* The cancellation has reached a task that was inside connect().
C17_WitnessConnecting ==
    \E p \in Peers : cancelled_at[p] = "connect" /\ task_pc[p] = "cancelled"

\* ------------------------------------------------------------------------
\* Properties of the aggregator
\* ------------------------------------------------------------------------
\* C3: aggregation atomicity.  When a run raises, whichever step failed, the
\* three derived tables are exactly as they were before the run.
C3_AggregationAtomic ==
    agg_last.outcome = "raised" =>
        /\ content_metrics = agg_last.pre.cm
        /\ trending_topics = agg_last.pre.tt
        /\ network_stats = agg_last.pre.ns

\* A run that raised in its last pass, after the earlier passes had changed
\* an existing row, added a new row and found a trending hashtag.
C3_Witness ==
    /\ agg_last.outcome = "raised"
    /\ agg_last.failAt = "network"
    /\ agg_last.pending.tt # {}
    /\ \E id \in DOMAIN agg_last.pending.cm : id \notin DOMAIN content_metrics
    /\ \E id \in DOMAIN agg_last.pending.cm :
          /\ id \in DOMAIN content_metrics
          /\ content_metrics[id] # agg_last.pending.cm[id]

\* C18: one NetworkStats row per successful run.  The table has as many
\* rows as runs have committed (a run that raised added none) and no two
\* rows have the same timestamp.
C18_OneStatsRowPerRun ==
    /\ Cardinality(network_stats) = agg_ok
    /\ \A r, q \in network_stats : r.timestamp = q.timestamp => r = q

\* Three runs, two committed; the last found the wall clock where the
\* previous run had left it and raised at its commit.
C18_Witness ==
    /\ agg_runs = 3
    /\ agg_ok = 2
    /\ agg_last.outcome = "raised"
    /\ agg_last.failAt = "none"

\* The rows of trending_topics that a committed run shows for the pending
\* row r: equal to r but for the id the insert assigned.
SameTopic(r, q) == [q EXCEPT !.id = 0] = [r EXCEPT !.id = 0]

\* C19: TrendingTopic is append-only.  No step removes or changes a row of
\* trending_topics, and a run that commits adds exactly its own rows, one
\* per pending row, to the rows of the earlier runs.
C19_StepAppends ==
    /\ trending_topics \subseteq trending_topics'
    /\ agg_ok' = agg_ok + 1 =>
          /\ Cardinality(trending_topics') =
                Cardinality(trending_topics) + Cardinality(agg_last'.pending.tt)
          /\ \A r \in agg_last'.pending.tt :
                \E q \in trending_topics' \ trending_topics : SameTopic(r, q)
    /\ agg_ok' = agg_ok => trending_topics' = trending_topics

C19_TrendingAppendOnly == [][C19_StepAppends]_vars

\* Two committed runs have each inserted a row for the same hashtag.
C19_Witness ==
    /\ agg_ok >= 2
    /\ agg_last.outcome = "committed"
    /\ agg_last.pending.tt # {}
    /\ \E r \in agg_last.pre.tt : \E q \in agg_last.pending.tt : q.hashtag = r.hashtag
    /\ Cardinality(trending_topics) >= 2

\* The mentions of hashtag h in the rows of content_metrics the trending
\* query of the last run read.
MentionsRead(h) ==
    LET cm == agg_last.pre.cm
        rows == {id \in DOMAIN cm : cm[id].created_at >= agg_last.at - TrendingWindow}
    IN  SumOver(Sorted(rows), [id \in rows |-> Occurrences(cm[id].hashtags, h)])

TopicBounds(r) ==
    /\ r.mention_count >= MinMentions
    /\ Len(r.sample_event_ids) <= MaxSamples
    /\ r.unique_authors >= 1
    /\ r.unique_authors <= r.mention_count

\* C20: trending thresholds.  Every row of trending_topics, and every row a
\* run adds to its session, has at least 3 mentions, at most 5 sample ids and
\* between 1 and mention_count unique authors; a hashtag the run read fewer
\* than 3 mentions of gets no row in that run.
C20_TrendingThresholds ==
    /\ \A r \in trending_topics : TopicBounds(r)
    /\ \A r \in agg_last.pending.tt : TopicBounds(r)
    /\ \A h \in {"nostr", "btc"} :
          MentionsRead(h) < MinMentions =>
              \A r \in agg_last.pending.tt : r.hashtag # h

\* A committed run that read a hashtag with more mentions than the sample
\* cap and another hashtag below the threshold.
C20_Witness ==
    /\ agg_last.outcome = "committed"
    /\ MentionsRead("btc") = 1
    /\ \E r \in trending_topics :
          /\ r.hashtag = "nostr"
          /\ r.mention_count > MaxSamples
          /\ Len(r.sample_event_ids) = MaxSamples
          /\ r.unique_authors = 2

\* ------------------------------------------------------------------------
\* The aggregator loop
\* ------------------------------------------------------------------------
\* C21: a failed aggregation run is fatal to that run only: while the
\* pipeline runs, the loop is back at its sleep after every run, failed
\* runs included, and a run that raised leaves the aggregate tables as the
\* run found them, which is the state the next run starts from.
C21_FailedRunNotFatal ==
    /\ (running /\ agg_runs > 0) => agg_pc = "sleep"
    /\ agg_last.outcome = "raised" => AggTables = agg_last.pre

\* a run committed after an earlier run had failed
C21_Witness ==
    /\ agg_last.outcome = "committed"
    /\ agg_ok < agg_runs
    /\ agg_ok >= 1
    /\ agg_last.pending.ns # {}


\* ------------------------------------------------------------------------
\* _parse_bolt11_amount on the invoices of a zap receipt
\* ------------------------------------------------------------------------
MaxDigits == 3

DigitChars == {"0", "1", "2"}

RECURSIVE DigitStrings(_)
DigitStrings(n) ==
    IF n = 0 THEN {<<>>}
    ELSE LET shorter == DigitStrings(n - 1) IN
         shorter \cup {<<c>> \o q : c \in DigitChars, q \in {x \in shorter : Len(x) = n - 1}}

Lnbc == <<"l", "n", "b", "c">>

Prefixes == {Lnbc, <<"l", "n", "t", "b">>}

Multipliers == {"m", "u", "n", "p"}

\* prefix, amount digits, multiplier, the separator "1" and the first
\* character of the data part
Invoice(prefix, digits, mult) == prefix \o digits \o <<mult, "1", "p">>

\* An invoice that the code reads as a whole number of bitcoins, which is
\* 10^11 msats each: Python's int holds it, the integers of TLC do not.
ReadsAsBitcoins(inv) ==
    LET amount_str == BeforeFirstOne(SubSeq(inv, 5, Len(inv))) IN
        /\ SubSeq(inv, 1, 4) = Lnbc
        /\ IsNumber(amount_str)
        /\ NumberOf(amount_str) # 0

Invoices ==
    {inv \in {Invoice(prefix, digits, mult) :
                 prefix \in Prefixes, digits \in DigitStrings(MaxDigits), mult \in Multipliers} :
        ~ReadsAsBitcoins(inv)}

InitParse ==
    /\ InitIngest /\ InitPool /\ InitAgg /\ InitTx /\ InitReplyFn /\ InitViralityFn
    /\ in_bolt11 \in Invoices
    /\ out_amount_msats = NotCalled

\* _process_zap calls _parse_bolt11_amount(bolt11)
ParseAmount ==
    /\ ~out_amount_msats.done
    /\ out_amount_msats' = Returned(ParseBolt11Amount(in_bolt11))
    /\ UNCHANGED <<in_bolt11, in_tags, out_reply_to, in_counts, in_age_hours,
                   out_virality_score>>
    /\ UNCHANGED <<ingestVars, poolVars, aggVars, txVars>>

NextParse == ParseAmount

ParseSpec == InitParse /\ [][NextParse]_vars

\* v = n * f, without forming the product
IsProduct(v, n, f) == v % f = 0 /\ v \div f = n

\* C22: an invoice made of the prefix, a non-empty digit string, a unit
\* multiplier and the separator parses to digits x multiplier-factor x
\* msats per bitcoin (m: 10^8, u: 10^5, n: 10^2, p: 1/10 per digit unit);
\* an invoice without the prefix or without digits parses to unknown.
C22_AmountExact ==
    out_amount_msats.done =>
        \A prefix \in Prefixes, digits \in DigitStrings(MaxDigits), mult \in Multipliers :
            in_bolt11 = Invoice(prefix, digits, mult) =>
                LET v == out_amount_msats.value
                    n == NumberOf(digits)
                IN  IF prefix # Lnbc \/ digits = <<>> THEN v = AmountUnknown
                    ELSE CASE mult = "m" -> IsProduct(v, n, 100000000)
                           [] mult = "u" -> IsProduct(v, n, 100000)
                           [] mult = "n" -> IsProduct(v, n, 100)
                           [] OTHER -> n % 10 = 0 => IsProduct(v, n \div 10, 1)


\* ------------------------------------------------------------------------
\* _extract_reply_to on the tags of a note
\* ------------------------------------------------------------------------
MaxTags == 3

\* reply_event = None
NoReplyTo == "None"

\* The tags a note may carry: reference tags without marker, marked
\* "reply", marked "root", a tag with the name only, and a pubkey tag.
TagChoices ==
    {<<"e", "id1">>, <<"e", "id2", "", "reply">>, <<"e", "id3", "", "root">>,
     <<"e", "id4", "", "reply">>, <<"e">>, <<"p", "pk1">>}

RECURSIVE TagLists(_)
TagLists(n) ==
    IF n = 0 THEN {<<>>}
    ELSE LET shorter == TagLists(n - 1) IN
         shorter \cup {<<tag>> \o q : tag \in TagChoices, q \in {x \in shorter : Len(x) = n - 1}}

\* Mutant of ExtractReplyTo: the marker is not looked at, the last reference
\* tag wins.
RECURSIVE ExtractLastReference(_)
ExtractLastReference(tag_list) ==
    IF tag_list = <<>> THEN NoReplyTo
    ELSE LET tag == tag_list[Len(tag_list)] IN
         IF Len(tag) >= 2 /\ tag[1] = "e" THEN tag[2]
         ELSE ExtractLastReference(SubSeq(tag_list, 1, Len(tag_list) - 1))

\* The for loop of _extract_reply_to from the tags still to visit, with the
\* fallback kept so far.
RECURSIVE ReplyScan(_, _)
ReplyScan(rest, reply_event) ==
    IF rest = <<>> THEN reply_event
    ELSE LET tag == Head(rest) IN
         IF Len(tag) >= 2 /\ tag[1] = "e"
         THEN IF Len(tag) >= 4 /\ tag[4] = "reply" THEN tag[2]
              ELSE ReplyScan(Tail(rest), tag[2])
         ELSE ReplyScan(Tail(rest), reply_event)

ExtractReplyTo(tag_list) == ReplyScan(tag_list, NoReplyTo)

InitReply ==
    /\ InitIngest /\ InitPool /\ InitAgg /\ InitTx /\ InitParseFn /\ InitViralityFn
    /\ in_tags \in TagLists(MaxTags)
    /\ out_reply_to = NotCalled

\* _process_text_note calls _extract_reply_to(tags)
ExtractReply ==
    /\ ~out_reply_to.done
    /\ out_reply_to' = Returned(ExtractReplyTo(in_tags))
    /\ UNCHANGED <<in_bolt11, out_amount_msats, in_tags, in_counts, in_age_hours,
                   out_virality_score>>
    /\ UNCHANGED <<ingestVars, poolVars, aggVars, txVars>>

NextReply == ExtractReply

ReplySpec == InitReply /\ [][NextReply]_vars

IsReference(tag) == Len(tag) >= 2 /\ tag[1] = "e"

IsReplyMarked(tag) == IsReference(tag) /\ Len(tag) >= 4 /\ tag[4] = "reply"

\* C23: the reply target is the target of a reference tag marked "reply"
\* when there is one, wherever it stands; else the target of the last
\* reference tag; else none.
C23_ReplyTarget ==
    out_reply_to.done =>
        LET refs == {i \in 1..Len(in_tags) : IsReference(in_tags[i])}
            replies == {i \in 1..Len(in_tags) : IsReplyMarked(in_tags[i])}
        IN  IF replies # {}
            THEN \E i \in replies : out_reply_to.value = in_tags[i][2]
            ELSE IF refs # {}
            THEN out_reply_to.value = in_tags[CHOOSE i \in refs : \A j \in refs : j <= i][2]
            ELSE out_reply_to.value = NoReplyTo

\* the "reply" tag stands before a "root" tag and an unmarked one
C23_Witness ==
    /\ out_reply_to.done
    /\ in_tags = << <<"e", "id2", "", "reply">>, <<"e", "id3", "", "root">>, <<"e", "id1">> >>
    /\ out_reply_to.value = "id2"


\* ------------------------------------------------------------------------
\* MetricsCalculator.calculate_virality_score
\* ------------------------------------------------------------------------
\* The floats of the formula are held in fixed point: the weights and the
\* engagement score in thousandths, the time decay in units of 1/DecayScale,
\* the returned score in hundredths (round(score, 2)).  age_hours ranges
\* over whole hours.
MaxAgeHours == 24

DecayScale == 10000

\* math.exp(-0.1155) = 0.8909..., and exp(-0.1155 * n) is its n-th power
DecayPerHour == 8909

AgeChoices == (0 - 2)..MaxAgeHours

CountChoices ==
    [zap_count : {0, 1, 10}, zap_total_sats : {0, 21, 5000}, reply_count : {0, 5},
     repost_count : {0, 3}, reaction_count : {0, 20}]

RECURSIVE DecayPow(_)
DecayPow(n) ==
    IF n = 0 THEN DecayScale ELSE (DecayPow(n - 1) * DecayPerHour) \div DecayScale

\* Mutant of TimeDecay: the sign of the exponent is lost, the factor grows
\* with age.
TimeDecayGrowing(age_hours) ==
    IF age_hours > 0 THEN 2 * DecayScale - DecayPow(age_hours) ELSE DecayScale

\* time_decay: math.exp(-0.1155 * age_hours) if age_hours > 0 else 1.0
TimeDecay(age_hours) ==
    IF age_hours > 0 THEN DecayPow(age_hours) ELSE DecayScale

\* engagement_score, in thousandths
EngagementScore(c) ==
    c.zap_count * 3000 + c.zap_total_sats * 1 + c.reply_count * 2000
        + c.repost_count * 2500 + c.reaction_count * 1000

\* round(x, 2) of x given in units of 1/(1000 * DecayScale): hundredths,
\* ties to even
Round2(x) ==
    LET unit == 10 * DecayScale
        q == x \div unit
        r == x % unit
    IN  IF 2 * r > unit THEN q + 1
        ELSE IF 2 * r = unit THEN q + (q % 2)
        ELSE q

ViralityScore(c, age_hours) == Round2(EngagementScore(c) * TimeDecay(age_hours))

InitVirality ==
    /\ InitIngest /\ InitPool /\ InitAgg /\ InitTx /\ InitParseFn /\ InitReplyFn
    /\ in_counts \in CountChoices
    /\ in_age_hours \in AgeChoices
    /\ out_virality_score = NotCalled

\* _calculate_event_metrics calls calculate_virality_score
CalculateVirality ==
    /\ ~out_virality_score.done
    /\ out_virality_score' = Returned(ViralityScore(in_counts, in_age_hours))
    /\ UNCHANGED <<in_bolt11, out_amount_msats, in_tags, out_reply_to, in_counts,
                   in_age_hours>>
    /\ UNCHANGED <<ingestVars, poolVars, aggVars, txVars>>

NextVirality == CalculateVirality

ViralitySpec == InitVirality /\ [][NextVirality]_vars

\* C24 as stated: with the engagement inputs fixed, the score at an age
\* above 0 is greater than the score at every later age, and an age of 0
\* or less applies no decay.
C24_StrictlyDecreasing ==
    out_virality_score.done =>
        /\ in_age_hours > 0 =>
              \A later \in AgeChoices :
                  later > in_age_hours =>
                      ViralityScore(in_counts, later) < out_virality_score.value
        /\ in_age_hours <= 0 =>
              out_virality_score.value = Round2(EngagementScore(in_counts) * DecayScale)

\* C24: with the engagement inputs fixed, the score never grows with age:
\* the score at an age is at least the score at every later age; an age of
\* 0 or less applies no decay.
C24_NonIncreasing ==
    out_virality_score.done =>
        /\ \A later \in AgeChoices :
              later > in_age_hours =>
                  ViralityScore(in_counts, later) <= out_virality_score.value
        /\ in_age_hours <= 0 =>
              out_virality_score.value = Round2(EngagementScore(in_counts) * DecayScale)

\* the engagement of the test at one hour scores above the same at 24 hours
C24_Witness ==
    /\ out_virality_score.done
    /\ in_age_hours = 1
    /\ in_counts = [zap_count |-> 10, zap_total_sats |-> 5000, reply_count |-> 5,
                    repost_count |-> 3, reaction_count |-> 20]
    /\ out_virality_score.value > ViralityScore(in_counts, MaxAgeHours)


\* ------------------------------------------------------------------------
\* The replay of the stored subscriptions by run_with_reconnect
\* ------------------------------------------------------------------------
\* The pool with its tasks and a caller that subscribes and unsubscribes
\* the ids of SubIds on all connected relays.
NextReplay ==
    \/ ConnectAllBegin
    \/ \E p \in Peers, ok \in BOOLEAN : ConnectAllSettle(p, ok)
    \/ ConnectAllReturn
    \/ StartListening
    \/ \E p \in Peers : TaskConnect(p, TRUE)
    \/ \E p \in Peers : ReplayNext(p)
    \/ \E p \in Peers, how \in {"ended", "closed"} : ListenReturns(p, how)
    \/ \E p \in Peers : TaskWake(p)
    \/ \E op \in {"subscribe", "unsubscribe"}, sub_id \in SubIds, ok \in SUBSET Peers :
          FanOut(op, sub_id, ok)

ReplaySpec == Init /\ [][NextReplay]_vars

\* Every subscription stored when the task's connect() succeeded has had
\* its request sent on the new transport when listen() starts.
ReplayedBeforeListen ==
    \A p \in Peers : task_pc[p] = "listen" => stored_at_connect[p] \subseteq req_sent[p]

\* a task listens after it has replayed two stored subscriptions
ReplayedBeforeListen_Reached ==
    \E p \in Peers :
        /\ task_pc[p] = "listen"
        /\ stored_at_connect[p] = SubIds
        /\ lost[p]

\* C25: after every successful connect() of run_with_reconnect and before
\* listen() starts, a request has been sent on the new transport for every
\* subscription stored at that moment; and a subscription that
\* unsubscribe() removed is never sent again by the replay.
C25_SubscriptionReplay ==
    /\ ReplayedBeforeListen
    /\ \A p \in Peers : resent[p] = {}


\* ------------------------------------------------------------------------
\* The batch of the ingestion loop
\* ------------------------------------------------------------------------
\* A step that is one iteration of the loop: the poll returned an entry or
\* timed out.
IterationStep ==
    /\ loop_pc = "wait"
    /\ \/ Len(event_buffer') < Len(event_buffer)
       \/ (event_buffer' = event_buffer /\ now' = now + 1)

\* The batch the iteration holds after its poll
IterationBatch ==
    IF Len(event_buffer') < Len(event_buffer)
    THEN Append(batch, Head(event_buffer)) ELSE batch

\* The batch is not empty and no flush of it has been attempted
FlushDue ==
    /\ running
    /\ loop_pc = "wait"
    /\ batch # <<>>
    /\ ~(flush.outcome = "raised" /\ flush.batch = batch)
    /\ now + Interval <= MaxClock

FlushAttempted ==
    \/ ~running
    \/ batch = <<>>
    \/ (flush.outcome = "raised" /\ flush.batch = batch)

\* C26: the loop flushes the batch in exactly the iterations in which the
\* batch has reached the batch size, or is not empty while the time since
\* the last flush has reached the interval; and since the poll times out, a
\* batch that is not empty is flushed even when no further entry arrives.
C26_FlushTrigger ==
    /\ [][IterationStep =>
            LET b == IterationBatch
                due == \/ Len(b) >= BatchSize
                       \/ (b # <<>> /\ now' - last_batch_time >= Interval)
            IN  /\ flush' # flush <=> due
                /\ flush' # flush => flush'.batch = b /\ flush'.at = now']_vars
    /\ [][~IterationStep => flush' = flush]_vars
    /\ FlushDue ~> FlushAttempted

\* a batch below the batch size was flushed by an iteration whose poll
\* timed out
C26_Witness ==
    /\ flush.outcome = "committed"
    /\ Len(flush.batch) = 1
    /\ event_buffer = <<>>
    /\ delivered = 1
    /\ enqueued = {1}
    /\ flush.at = now
    /\ flush.at >= Interval


\* C27: in every reachable state the working batch of the ingestion loop
\* holds at most the batch size of entries, also after flushes that failed.
C27_BatchBounded == Len(batch) <= BatchSize


\* C28: the queue never holds more than its capacity; a push on a full
\* queue waits (and only then) until the consumer has made room, and while
\* the pipeline runs every message a relay hands over is in the queue or
\* waiting for it: none is dropped, whatever the number of relays pushing.
C28_BoundedBlockingQueue ==
    /\ [](Len(event_buffer) <= BufferSize)
    /\ [][delivered' > delivered =>
            \/ /\ Len(event_buffer') = Len(event_buffer) + 1
               /\ SubSeq(event_buffer', 1, Len(event_buffer)) = event_buffer
            \/ \E r \in Relays :
                  /\ blocked[r] = <<>>
                  /\ blocked'[r] # <<>>
                  /\ Len(event_buffer) = BufferSize]_vars
    /\ [][\A r \in Relays :
            (blocked[r] # <<>> /\ blocked'[r] # blocked[r] /\ running') =>
                event_buffer' = Append(event_buffer, Head(blocked[r]))]_vars

\* both relays wait with an entry for room in the full queue
C28_Witness ==
    /\ running
    /\ Len(event_buffer) = BufferSize
    /\ \A r \in Relays : blocked[r] # <<>>


\* ------------------------------------------------------------------------
\* The writers
\* ------------------------------------------------------------------------
\* C29: while the pipeline runs there is never more than one flush in
\* progress and never more than one aggregation run in progress: a flush or
\* a run begins only when the previous one has committed or rolled back.
C29_OneWriterEach ==
    /\ [](flush_open <= 1 /\ agg_open <= 1)
    /\ [][flush_open' > flush_open => flush_open = 0]_vars
    /\ [][agg_open' > agg_open => agg_open = 0]_vars

\* a second flush is under way after the first one and a run have ended
C29_Witness ==
    /\ tx_flushes = 2
    /\ flush_open = 1
    /\ agg_runs >= 1
    /\ agg_open = 0

\* C30: stop() ends neither loop while a flush or a run has its transaction
\* open: when a loop has been ended no transaction of it is open, and the
\* step that ends the loops starts in a state with no open transaction.
C30_GracefulStop ==
    /\ [](loop_pc = "exited" => flush_open = 0)
    /\ [](agg_pc = "exited" => agg_open = 0)
    /\ [][(running /\ ~running') => (flush_open = 0 /\ agg_open = 0)]_vars

\* the pipeline was stopped after a flush and a run
C30_Witness ==
    /\ loop_pc = "exited"
    /\ agg_pc = "exited"
    /\ tx_flushes >= 1
    /\ agg_runs >= 1

\* ------------------------------------------------------------------------
\* The peer connection: backoff, frames, publish
\* ------------------------------------------------------------------------
\* A step in which a connect() of p returns True / returns False, called by
\* connect_all or by the task of p.
ConnectSucceeded(p) ==
    \/ conn_result[p] = "pending" /\ conn_result'[p] = "ok"
    \/ task_pc[p] = "connect" /\ task_pc'[p] \in {"listen", "resubscribe"}

ConnectFailed(p) ==
    \/ conn_result[p] = "pending" /\ conn_result'[p] = "fail"
    \/ task_pc[p] = "connect" /\ task_pc'[p] = "sleep_fail"

\* C31: backoff bounds and reset.  The reconnect delay of every client lies
\* between the floor and the ceiling in every state; it equals the floor
\* right after every connect() that succeeded; a connect() that failed has
\* added exactly one to the error counter and left the client not connected.
C31_BackoffBounds ==
    /\ [](\A p \in Peers :
             /\ FloorDelay <= client[p].reconnect_delay
             /\ client[p].reconnect_delay <= MaxReconnectDelay)
    /\ [][\A p \in Peers :
             ConnectSucceeded(p) => client'[p].reconnect_delay = FloorDelay]_vars
    /\ [][\A p \in Peers :
             ConnectFailed(p) =>
                 /\ client'[p].error_count = client[p].error_count + 1
                 /\ ~client'[p].is_connected]_vars

\* One task sleeps with its delay at the ceiling after repeated failures,
\* another has lost a stream, failed to connect, and connected again with
\* its delay back at the floor.
C31_Witness ==
    /\ \E p \in Peers :
          /\ task_pc[p] = "sleep_fail"
          /\ client[p].reconnect_delay = MaxReconnectDelay
          /\ ~client[p].is_connected
    /\ \E q \in Peers :
          /\ task_pc[q] = "listen"
          /\ lost[q]
          /\ client[q].error_count >= 1
          /\ client[q].reconnect_delay = FloorDelay

\* A step in which the client of p handled a malformed frame.
MalformedHandled(p) ==
    /\ frames'[p] = frames[p] + 1
    /\ last_frame'[p] \in MalformedFrames

\* C32: malformed frame handling.  A step of listen() that handles a
\* malformed frame adds exactly one to the client's error counter, calls no
\* callback, leaves the connected flag and the stored subscriptions as they
\* were, and leaves the task in listen().
C32_MalformedFrame ==
    [][\A p \in Peers :
          MalformedHandled(p) =>
              /\ client'[p].error_count = client[p].error_count + 1
              /\ ~InvokesCallback(last_frame'[p])
              /\ client'[p].is_connected = client[p].is_connected
              /\ client'[p].subscriptions = client[p].subscriptions
              /\ task_pc'[p] = "listen"]_vars

\* The part of C32 that the handler keeps: no malformed frame reaches the
\* callback, touches the flag or the subscriptions, or ends listen(), and
\* those that raise in the handler are counted once.
MalformedFrameContained ==
    [][\A p \in Peers :
          MalformedHandled(p) =>
              /\ DecodeRaises(last_frame'[p]) # "none" =>
                     client'[p].error_count = client[p].error_count + 1
              /\ ~InvokesCallback(last_frame'[p])
              /\ client'[p].is_connected = client[p].is_connected
              /\ client'[p].subscriptions = client[p].subscriptions
              /\ task_pc'[p] = "listen"]_vars

\* A subscribed client has handled a frame that is a bare JSON string.
MalformedFrameContained_Reached ==
    \E p \in Peers :
        /\ last_frame[p] = "json_string"
        /\ Has(client[p].subscriptions, "main")
        /\ task_pc[p] = "listen"

\* A step that is a call of publish_to_all.
Published == fanouts' = fanouts + 1 /\ fanout'.op = "publish"

\* C33: publish has no effect on the connection state.  In a publish_to_all
\* every client the event was published to keeps its connected flag, its
\* stored subscriptions, its error counter and its reconnect delay, whether
\* its send succeeded or failed, and a failed send is the result False of
\* publish_event, not an exception.
C33_PublishNoEffect ==
    [][Published =>
          \A p \in fanout'.targets :
              /\ client'[p].is_connected = client[p].is_connected
              /\ client'[p].subscriptions = client[p].subscriptions
              /\ client'[p].error_count = client[p].error_count
              /\ client'[p].reconnect_delay = client[p].reconnect_delay
              /\ PublishEvent(client[p], p \in fanout'.sendOk).out =
                    (IF p \in fanout'.sendOk THEN "true" ELSE "false")
              /\ fanout'.results[p] = (p \in fanout'.sendOk)]_vars

\* An event was published to two subscribed clients; the send of one failed
\* and the send of the other succeeded.
C33_Witness ==
    /\ fanout.op = "publish"
    /\ \E p, q \in fanout.targets :
          /\ p \notin fanout.sendOk
          /\ q \in fanout.sendOk
          /\ Has(client[p].subscriptions, "main")
          /\ client[p].is_connected

\* C34: single transport per peer.  No client has more than one open
\* transport, and a connect() opens a transport only for a client that has
\* none open.
C34_SingleTransport ==
    /\ [](\A p \in Peers : transports[p].open <= 1)
    /\ [][\A p \in Peers :
             transports'[p].open > transports[p].open => transports[p].open = 0]_vars

\* C35: the connected flag tracks the stream.  While the task of a client
\* sleeps after its listen() has returned, the client's connected flag is
\* false and get_stats does not report the client as connected.
C35_FlagTracksStream ==
    \A p \in Peers :
        task_pc[p] = "sleep_lost" =>
            /\ ~client[p].is_connected
            /\ p \in clients => ~GetStats.relays[p].connected

\* A step in which the replay of run_with_reconnect hands the request of
\* `id` to the new transport of p.
ReplaySends(p, id) ==
    /\ fanouts' = fanouts
    /\ id \in req_sent'[p]
    /\ \/ task_pc[p] = "connect" /\ task_pc'[p] = "resubscribe"
       \/ task_pc[p] = "resubscribe" /\ id \notin req_sent[p]

\* C36: unsubscribe is durable across reconnects.  When the last call made
\* on the pool was unsubscribe_all(id), no client sends a subscription
\* request for id, whether or not it was connected at that call.
C36_UnsubscribeDurable ==
    [][\A p \in Peers, id \in SubIds :
          (fanout.op = "unsubscribe" /\ fanout.sub_id = id) => ~ReplaySends(p, id)]_vars

\* ------------------------------------------------------------------------
\* The batch after a flush that failed
\* ------------------------------------------------------------------------
\* The working batch is the batch of a flush that raised
FailedBatchHeld == flush.outcome = "raised" /\ batch = flush.batch

\* C37: a failed flush keeps the batch.  An iteration whose flush raises
\* leaves every entry of the flushed batch in the working batch; the next
\* iteration of the loop flushes again, with those entries first; and the
\* working batch becomes empty only in an iteration whose flush returned
\* without raising.
C37_FailedFlushKeepsBatch ==
    /\ [][(IterationStep /\ flush' # flush /\ flush'.outcome = "raised")
             => batch' = flush'.batch /\ loop_pc' = "sleep_err"]_vars
    /\ [][(IterationStep /\ FailedBatchHeld)
             => /\ flush' # flush
                /\ flush'.at = now'
                /\ SubSeq(flush'.batch, 1, Len(batch)) = batch]_vars
    /\ [][(batch # <<>> /\ batch' = <<>>)
             => /\ IterationStep
                /\ flush'.outcome = "committed"
                /\ flush'.at = now'
                /\ flush'.batch = IterationBatch]_vars

\* A flush committed a batch that holds more entries than the batch size:
\* an earlier flush of its first entries had raised, the entries were kept
\* and flushed again.
C37_Witness ==
    /\ flush.outcome = "committed"
    /\ Len(flush.batch) > BatchSize
    /\ batch = <<>>
    /\ Ids(flush.batch) \subseteq DOMAIN nostr_events

\* ------------------------------------------------------------------------
\* The counters of the pipeline
\* ------------------------------------------------------------------------
\* The raw records the last flush persisted: those its session held when it
\* committed.
PersistedByFlush ==
    IF flush.outcome = "committed"
    THEN {i \in 1..Len(flush.handed) : flush.handed[i].id \notin flush.saveFault}
    ELSE {}

\* C38: the counters are consistent.  events_saved never exceeds
\* events_received, and a flush adds to events_saved exactly the number of
\* raw records it persisted.
C38_CountersConsistent ==
    /\ [](stats.events_saved <= stats.events_received)
    /\ [][flush' # flush =>
             stats'.events_saved = stats.events_saved + Cardinality(PersistedByFlush')]_vars

\* ------------------------------------------------------------------------
\* What the passes of one aggregation run read
\* ------------------------------------------------------------------------
\* content_metrics as the content pass of the last run wrote it: the rows
\* it set, over the rows the run found.
WrittenByContentPass ==
    LET pre == agg_last.pre.cm
        set == agg_last.pending.cm
    IN  [id \in DOMAIN pre \cup DOMAIN set |-> IF id \in DOMAIN set THEN set[id] ELSE pre[id]]

\* The mentions of hashtag h in those rows, inside the trending window
MentionsWritten(h) ==
    LET cm == WrittenByContentPass
        rows == {id \in DOMAIN cm : cm[id].created_at >= agg_last.at - TrendingWindow}
    IN  SumOver(Sorted(rows), [id \in rows |-> Occurrences(cm[id].hashtags, h)])

\* C39: same-run visibility.  The trending pass of a run counts the
\* mentions of every hashtag over the rows of content_metrics as the
\* content pass of the same run wrote them, newly inserted rows included:
\* a hashtag with at least 3 such mentions gets a row with that count, and
\* no other hashtag gets a row.
C39_SameRunVisibility ==
    agg_last.outcome = "committed" =>
        \A h \in {"nostr", "btc"} :
            IF MentionsWritten(h) >= MinMentions
            THEN \E r \in agg_last.pending.tt :
                    r.hashtag = h /\ r.mention_count = MentionsWritten(h)
            ELSE \A r \in agg_last.pending.tt : r.hashtag # h

NoDuplicates(q) == \A i, j \in 1..Len(q) : q[i] = q[j] => i = j

\* The rows of content_metrics the trending query of the last run read
\* that mention hashtag h
NotesMentioning(h) ==
    LET cm == agg_last.pre.cm IN
    {id \in DOMAIN cm : /\ cm[id].created_at >= agg_last.at - TrendingWindow
                        /\ Occurrences(cm[id].hashtags, h) > 0}

\* C40: one mention per note per hashtag.  The hashtag list of every row of
\* content_metrics has no duplicates, and the mention count of every row
\* the trending pass adds is at most the number of notes that mention the
\* hashtag.
C40_OneMentionPerNote ==
    /\ \A id \in DOMAIN content_metrics : NoDuplicates(content_metrics[id].hashtags)
    /\ \A r \in agg_last.pending.tt :
          r.mention_count <= Cardinality(NotesMentioning(r.hashtag))

============================================================================
